---- MODULE Spec2Model ----
(***************************************************************************)
(* A9 V720 camera server (knightofdemons/a9-v720).                         *)
(*                                                                         *)
(* The repository holds several server prototypes side by side.  Each is   *)
(* modelled by its own specification over the variables below:             *)
(*                                                                         *)
(*   SpecCodec    the byte-level codec: ProtocolHeader, the keepalive      *)
(*                replies, the CMD=605 confirmation, control-frame decode  *)
(*                (protocol/binary.rs, protocol.rs, pipeline.rs,           *)
(*                router/tcp.rs, router/udp.rs, main.rs)                   *)
(*   SpecRing     StreamBuffer::add_complete_frame (types.rs)              *)
(*   SpecBuffer   StreamBuffer fragment assembly (types.rs)                *)
(*   SpecRouter   the CameraManager based UdpRouter/TcpRouter              *)
(*                (router/udp.rs, router/tcp.rs, types.rs)                 *)
(*   SpecPipeline the bounded-queue worker pipeline (pipeline.rs,          *)
(*                net/tcp.rs, net/udp.rs, web.rs)                          *)
(*   SpecPool     the same pipeline task by task: the ingress channel,     *)
(*                WorkerPool::run, the permit and the lock of each task    *)
(*                (pipeline.rs, net/tcp.rs, net/udp.rs); SpecPoolFair adds *)
(*                the scheduling of WorkerPool::run                        *)
(*   SpecControl  the control messages of TcpRouter and UdpRouter on the   *)
(*                shared CameraManager (router/tcp.rs, router/udp.rs)      *)
(*   SpecAssemble StreamBuffer::add_fragment on one continuation or        *)
(*                terminator fragment (types.rs)                           *)
(*   SpecSweep    the periodic sweep of incomplete frames, with a clock    *)
(*                (router/udp.rs, types.rs)                                *)
(*   SpecListener run_tcp_listener and its accept loops (net/tcp.rs);      *)
(*                SpecListenerFair adds the polling of an awaited loop     *)
(*   SpecVideoPort the UDP sockets of UdpRouter: the port of a code-21     *)
(*                reply and the receive loops (router/udp.rs)              *)
(*   SpecStream   a TCP byte stream cut into read chunks, each chunk       *)
(*                decoded by parse_message (net/tcp.rs, pipeline.rs)       *)
(***************************************************************************)
EXTENDS Integers, Sequences, FiniteSets, TLC

VARIABLES
    \* ---- codec (SpecCodec) ----
    wire_op,        \* which codec function was applied last
    wire_in,        \* its input
    wire_out,       \* its result
    \* ---- StreamBuffer (SpecRing, SpecBuffer) ----
    stream_buffer,  \* a StreamBuffer: frames, max_frames, current_frame
    completed,      \* history: every frame handed to add_complete_frame
    delivery,       \* history: the run of fragments delivered back to back
    \* ---- CameraManager routers (SpecRouter) ----
    cameras,        \* CameraManager.cameras: IpAddr -> CameraConnection
    sent605,        \* history: CMD=605 datagrams sent to each camera since
                    \*   streaming was last started for it
    received_since, \* history: pkg_ids received from each camera since the
                    \*   bucket was last flushed
    last_event,     \* history: the handler that ran last
    \* ---- the periodic sweep of incomplete frames (SpecSweep) ----
    now,            \* milliseconds since the sweep task was spawned
    next_tick,      \* when the task's interval completes its next tick
    assembly_started, \* history: when the assembly in progress was started
    last_sweep,     \* history: what the last sweep found and did
    \* ---- the routers' control messages (SpecControl) ----
    manager_lock,   \* the RwLock around the CameraManager
    tcp_task,       \* TcpRouter::handle_connection task of each camera
    udp_task,       \* the UdpRouter::start receive loop
    control_turn,   \* history: the control handler that ran last, the camera
                    \*   state before and after, and what it sent
    code51_seen,    \* history: code-51 messages received from each camera
    \* ---- worker pipeline (SpecPipeline) ----
    sessions,       \* camera_sessions: device_id -> CameraSession
    connections,    \* net::tcp::TcpRouter.connections: ConnId -> peer ip
    connection_id,  \* accept_loop's counter of accepted connections
    inflight,       \* RawFrames read by a dispatcher, not yet processed
    turn,           \* history: the frame process_frame handled last, the
                    \*   session before and after, and what was sent
    script,         \* history: the turns in a row that follow the handshake
    opened,         \* history: the peer ips accept_loop has accepted
    sessions_lock,  \* the RwLock around camera_sessions: who holds it
    \* ---- ingress queue and worker pool (SpecPool) ----
    ingress,        \* the mpsc channel from the dispatchers to WorkerPool
    tasks,          \* the tasks WorkerPool::run has spawned, in spawn order
    permits,        \* free permits of the concurrency semaphore
    pushed,         \* history: how many frames the dispatchers have sent
    \* ---- the TCP listeners (SpecListener) ----
    awaited,        \* which accept_loop future run_tcp_listener is awaiting
    backlog,        \* connection attempts waiting on each port
    handled,        \* history: a handler was spawned for a connection to the port
    accept_errors,  \* history: the ports whose accept returned Err
    \* ---- the UDP sockets of the CameraManager server (SpecVideoPort) ----
    udp_sockets,    \* the bound sockets: port -> receive loop?, datagrams waiting
    advertised      \* history: the ports sent to a camera in a code-21 reply

codecVars    == <<wire_op, wire_in, wire_out>>
sweepVars    == <<now, next_tick, assembly_started, last_sweep>>
bufferVars   == <<stream_buffer, completed, delivery, sweepVars>>
controlVars  == <<manager_lock, tcp_task, udp_task, control_turn, code51_seen>>
socketVars   == <<udp_sockets, advertised>>
routerVars   == <<cameras, sent605, received_since, last_event, controlVars,
                  socketVars>>
poolVars     == <<ingress, tasks, permits, pushed>>
listenerVars == <<awaited, backlog, handled, accept_errors>>
pipelineVars == <<sessions, connections, connection_id, inflight, turn, script,
                  opened, sessions_lock, poolVars, listenerVars>>
vars == <<codecVars, bufferVars, routerVars, pipelineVars>>

None == "None"

\* Option<T> of a record or number: <<>> is None, <<x>> is Some(x)
Some(x) == <<x>>

\* Each specification leaves the other subsystems in this idle state.
CodecIdle    == wire_op = None /\ wire_in = None /\ wire_out = None
SweepIdle    == /\ now = 0 /\ next_tick = 0 /\ assembly_started = <<>>
                /\ last_sweep = None
BufferIdle   == /\ stream_buffer = None /\ completed = <<>> /\ delivery = <<>>
                /\ SweepIdle
SocketIdle   == udp_sockets = <<>> /\ advertised = {}
RouterIdle   == /\ cameras = <<>> /\ sent605 = <<>> /\ received_since = <<>>
                /\ last_event = None /\ SocketIdle
                /\ manager_lock = None /\ tcp_task = <<>> /\ udp_task = None
                /\ control_turn = None /\ code51_seen = <<>>
PipelineIdle == /\ sessions = <<>> /\ connections = <<>> /\ connection_id = 0
                /\ inflight = {} /\ turn = None /\ script = <<>>
                /\ opened = {} /\ sessions_lock = None
                /\ ingress = <<>> /\ tasks = <<>> /\ permits = 0 /\ pushed = 0
                /\ awaited = 0 /\ backlog = <<>> /\ handled = <<>>
                /\ accept_errors = {}

(***************************************************************************)
(* Bytes and little-endian integers                                        *)
(***************************************************************************)
\* n.to_le_bytes() for an integer type of w bytes
RECURSIVE to_le_bytes(_, _)
to_le_bytes(n, w) ==
    IF w = 0 THEN <<>> ELSE <<n % 256>> \o to_le_bytes(n \div 256, w - 1)

\* u32::from_le_bytes / Buf::get_u32_le / get_u16_le over the given bytes
RECURSIVE from_le_bytes(_)
from_le_bytes(bs) ==
    IF bs = <<>> THEN 0 ELSE Head(bs) + 256 * from_le_bytes(Tail(bs))

Repeat(b, n) == [i \in 1..n |-> b]

\* b"00000000": eight ASCII '0'
AsciiZeros8 == Repeat(48, 8)

(***************************************************************************)
(* protocol/binary.rs: ProtocolHeader                                      *)
(***************************************************************************)
ProtocolHeader_SIZE == 20

ProtocolHeader_BigEndianCmd(h) ==
    to_le_bytes(h.length, 4) \o <<(h.cmd \div 256) % 256, h.cmd % 256>>
        \o <<h.msg_flag>> \o <<h.deal_fl>> \o h.fwd_id \o to_le_bytes(h.pkg_id, 4)

ProtocolHeader_to_bytes(h) ==
    to_le_bytes(h.length, 4) \o to_le_bytes(h.cmd, 2) \o <<h.msg_flag>>
        \o <<h.deal_fl>> \o h.fwd_id \o to_le_bytes(h.pkg_id, 4)

ProtocolHeader_from_bytes(data) ==
    IF Len(data) < ProtocolHeader_SIZE
    THEN [ok |-> FALSE]
    ELSE [ok      |-> TRUE,
          header  |-> [length   |-> from_le_bytes(SubSeq(data, 1, 4)),
                       cmd      |-> from_le_bytes(SubSeq(data, 5, 6)),
                       msg_flag |-> data[7],
                       deal_fl  |-> data[8],
                       fwd_id   |-> SubSeq(data, 9, 16),
                       pkg_id   |-> from_le_bytes(SubSeq(data, 17, 20))],
          payload |-> SubSeq(data, 21, Len(data))]

ProtocolHeader_new(cmd, length, msg_flag, pkg_id) ==
    [length |-> length, cmd |-> cmd, msg_flag |-> msg_flag, deal_fl |-> 0,
     fwd_id |-> Repeat(0, 8), pkg_id |-> pkg_id]

ProtocolHeader_json(pkg_id, json_length) ==
    ProtocolHeader_new(0, json_length, 255, pkg_id)

ProtocolHeader_binary(cmd, pkg_id, data_length) ==
    ProtocolHeader_new(cmd, data_length, 255, pkg_id)

(***************************************************************************)
(* The three TCP keepalive replies                                         *)
(***************************************************************************)
\* pipeline.rs serialize_response, Response::KeepaliveResponse
serialize_response_KeepaliveResponse ==
    [i \in 1..20 |-> IF i = 5 THEN 100 ELSE IF i \in 9..16 THEN 48 ELSE 0]

\* router/tcp.rs TcpRouter::handle_keepalive: the message written to tcp_conn
TcpRouter_handle_keepalive_message ==
    ProtocolHeader_to_bytes(ProtocolHeader_binary(99, 0, 0))

\* main.rs handle_tcp_connection, n == 20
main_handle_tcp_connection_response ==
    <<0, 0, 0, 0, 100, 0, 0, 0, 48, 48, 48, 48, 48, 48, 48, 48, 0, 0, 0, 0>>

(***************************************************************************)
(* router/udp.rs: the CMD=605 retransmission confirmation                  *)
(***************************************************************************)
RECURSIVE pkg_ids_le(_)
pkg_ids_le(ids) ==
    IF ids = <<>> THEN <<>>
    ELSE to_le_bytes(Head(ids), 4) \o pkg_ids_le(Tail(ids))

\* size_of::<usize>() on the targets the crate builds for (32 and 64 bit)
UsizeBytes == {4, 8}

\* send_batch_retransmission_confirmation: the datagram it builds.
\* total_length is a usize, so its to_le_bytes() has the target's width.
batch_retransmission_message(package_ids, usize_bytes) ==
    LET payload      == AsciiZeros8 \o pkg_ids_le(package_ids)
        total_length == 4 + 8 + (Len(package_ids) * 4)
    IN  to_le_bytes(total_length, usize_bytes) \o to_le_bytes(605, 4) \o payload

\* send_empty_retransmission_confirmation and handle_udp_heartbeat:
\* total_length is declared u32
empty_retransmission_message ==
    to_le_bytes(4 + 8 + 0, 4) \o to_le_bytes(605, 4) \o AsciiZeros8

(***************************************************************************)
(* Decoding a control frame: 20-byte header, then the JSON body.           *)
(* A JSON text is one element (a number above 255) of the byte sequence;   *)
(* JsonTexts says what each text holds.                                    *)
(***************************************************************************)
JsonCodes == {100, 11, 12, 20, 21, 51, 999, 7}

\* json["code"].as_u64() / as_i64() is None: no integer "code" in the text
Absent == -1

\* typed: the text deserializes into protocol::ProtocolMessage
\* uid: it has a "uid" string; content: code of "content" when the text has
\* both "target" and "content"
JsonTexts ==
    [code : JsonCodes, typed : BOOLEAN, uid : BOOLEAN, content : {Absent}]
    \cup [code : {301}, typed : {TRUE}, uid : BOOLEAN, content : {Absent, 298, 4, 3, 0}]
    \cup [code : {Absent}, typed : {FALSE}, uid : {FALSE}, content : {Absent}]

RECURSIVE SetToSeq(_)
SetToSeq(S) ==
    IF S = {} THEN <<>>
    ELSE LET x == CHOOSE y \in S : TRUE IN <<x>> \o SetToSeq(S \ {x})

JsonTable    == SetToSeq(JsonTexts)
JsonToken(j) == 255 + CHOOSE k \in 1..Len(JsonTable) : JsonTable[k] = j
JsonOf(tok)  == JsonTable[tok - 255]
IsByte(x)    == x <= 255

\* serde_json::from_str / from_slice succeed on exactly one JSON text:
\* NUL is not JSON whitespace, so a leading 0x00 is a syntax error
is_json_text(s) == Len(s) = 1 /\ ~IsByte(s[1])

\* str::trim_start_matches('\0')
RECURSIVE trim_start_matches_nul(_)
trim_start_matches_nul(s) ==
    IF s # <<>> /\ Head(s) = 0 THEN trim_start_matches_nul(Tail(s)) ELSE s

\* router/tcp.rs TcpRouter::process_message, the `match code` on a JSON text:
\* which handler runs, and on which text
TcpRouter_json_dispatch(j) ==
    CASE j.code = Absent -> [handler |-> "none"]
      [] j.code = 100  -> [handler |-> "handle_registration", json |-> j]
      [] j.code = 12   -> [handler |-> "handle_nat_probe_response", json |-> j]
      [] j.code = 51   -> [handler |-> "handle_device_info_request", json |-> j]
      [] j.code = 201  -> [handler |-> "handle_snapshot_request", json |-> j]
      [] j.code = 301  ->
            IF j.content # Absent
            THEN CASE j.content = 4 -> [handler |-> "send_streaming_command"]
                   [] j.content = 3 -> [handler |-> "send_stop_streaming_command"]
                   [] OTHER         -> [handler |-> "none"]
            ELSE IF j.uid THEN [handler |-> "handle_streaming_request", json |-> j]
            ELSE [handler |-> "none"]
      [] OTHER         -> [handler |-> "none"]

\* router/tcp.rs TcpRouter::process_message
TcpRouter_process_message(data) ==
    LET r == ProtocolHeader_from_bytes(data) IN
    IF ~r.ok THEN [handler |-> "Err"]
    ELSE CASE r.header.cmd \in {0, 87} ->
                LET clean_json_str == trim_start_matches_nul(r.payload) IN
                IF is_json_text(clean_json_str)
                THEN TcpRouter_json_dispatch(JsonOf(clean_json_str[1]))
                ELSE [handler |-> "none"]
           [] r.header.cmd = 99  -> [handler |-> "handle_keepalive"]
           [] r.header.cmd = 100 -> [handler |-> "handle_heartbeat"]
           [] r.header.cmd \in {1, 4, 6, 7} -> [handler |-> "handle_video_frame_tcp"]
           [] OTHER -> [handler |-> "none"]

\* protocol.rs parse_protocol_message
parse_protocol_message(data) ==
    IF Len(data) < 20 THEN [ok |-> FALSE]
    ELSE IF Len(data) <= 20 THEN [ok |-> FALSE]
    ELSE LET json_str == SubSeq(data, 21, Len(data)) IN
         IF is_json_text(json_str) /\ JsonOf(json_str[1]).typed
         THEN [ok |-> TRUE, message |-> JsonOf(json_str[1])]
         ELSE [ok |-> FALSE]

Unknown(code) == [kind |-> "Unknown", code |-> code]

\* pipeline.rs parse_message.  The Register ip is "0.0.0.0" on the typed
\* path and the peer address on the serde_json::Value path.
parse_message(bytes) ==
    IF Len(bytes) = 20 THEN [kind |-> "Keepalive"]
    ELSE IF is_json_text(bytes) THEN [kind |-> "Json", json |-> JsonOf(bytes[1])]
    ELSE LET p == parse_protocol_message(bytes) IN
    IF p.ok
    THEN CASE p.message.code = 100 /\ p.message.uid ->
                  [kind |-> "Register", ip |-> "0.0.0.0"]
           [] p.message.code = 100 /\ ~p.message.uid -> Unknown(0)
           [] p.message.code = 12  -> [kind |-> "NatProbeResponse"]
           [] p.message.code = 999 -> [kind |-> "Keepalive"]
           [] OTHER -> Unknown(p.message.code)
    ELSE IF Len(bytes) > 20 /\ is_json_text(SubSeq(bytes, 21, Len(bytes)))
    THEN LET json_value == JsonOf(bytes[21]) IN
         CASE json_value.code = Absent -> Unknown(0)
           [] json_value.code = 100  -> [kind |-> "Register", ip |-> "addr"]
           [] json_value.code = 11   -> [kind |-> "StartStreaming"]
           [] json_value.code = 12   -> [kind |-> "NatProbeResponse"]
           [] json_value.code = 20   -> [kind |-> "UdpProbeRequest"]
           [] json_value.code = 21   -> Unknown(21)
           [] json_value.code = 51   -> [kind |-> "TriggerStreaming"]
           [] json_value.code = 999  -> [kind |-> "Keepalive"]
           [] OTHER -> Unknown(json_value.code)
    ELSE Unknown(0)

(***************************************************************************)
(* The code-11 (NAT probe request) body: the order of its JSON keys.  A    *)
(* key is its ASCII bytes.  serde_json's Map is a BTreeMap (keys sorted)   *)
(* unless the crate is built with the preserve_order feature; the feature  *)
(* set is fixed by the build manifest, which is not part of the sources.   *)
(***************************************************************************)
Key_code       == <<99, 111, 100, 101>>
Key_cliTarget  == <<99, 108, 105, 84, 97, 114, 103, 101, 116>>
Key_cliToken   == <<99, 108, 105, 84, 111, 107, 101, 110>>
Key_cliIp      == <<99, 108, 105, 73, 112>>
Key_cliPort    == <<99, 108, 105, 80, 111, 114, 116>>
Key_cliNatIp   == <<99, 108, 105, 78, 97, 116, 73, 112>>
Key_cliNatPort == <<99, 108, 105, 78, 97, 116, 80, 111, 114, 116>>

\* the keys in the order the three builders write them in their source
Code11Keys ==
    <<Key_code, Key_cliTarget, Key_cliToken, Key_cliIp, Key_cliPort,
      Key_cliNatIp, Key_cliNatPort>>

\* Ord for String: byte-wise lexicographic
RECURSIVE str_lt(_, _)
str_lt(a, b) ==
    IF b = <<>> THEN FALSE
    ELSE IF a = <<>> THEN TRUE
    ELSE IF Head(a) # Head(b) THEN Head(a) < Head(b)
    ELSE str_lt(Tail(a), Tail(b))

\* BTreeMap<String, Value>: iteration in key order
RECURSIVE btree_insert(_, _)
btree_insert(keys, k) ==
    IF keys = <<>> THEN <<k>>
    ELSE IF k = Head(keys) THEN keys
    ELSE IF str_lt(k, Head(keys)) THEN <<k>> \o keys
    ELSE <<Head(keys)>> \o btree_insert(Tail(keys), k)

RECURSIVE btree_of(_)
btree_of(keys) ==
    IF keys = <<>> THEN <<>>
    ELSE btree_insert(btree_of(SubSeq(keys, 1, Len(keys) - 1)), keys[Len(keys)])

MapOrders == {"BTreeMap", "preserve_order"}

\* serde_json::to_string(&serde_json::json!({...})): the keys as serialized
json_macro_to_string(keys, map_order) ==
    IF map_order = "preserve_order" THEN keys ELSE btree_of(keys)

\* pipeline.rs Message::Keepalive: the body is a format! literal
pipeline_code11_json_string == Code11Keys

\* router/tcp.rs start_streaming_for_camera: nat_probe_command
TcpRouter_nat_probe_command(map_order) == json_macro_to_string(Code11Keys, map_order)

\* camera.rs create_code11_message
create_code11_message(map_order) == json_macro_to_string(Code11Keys, map_order)

(***************************************************************************)
(* SpecCodec: the codec functions applied to inputs from bounded sets      *)
(***************************************************************************)
MaxPayload == 2
MaxIds     == 2
MaxNul     == 8

RECURSIVE SeqsUpTo(_, _)
SeqsUpTo(S, n) ==
    IF n = 0 THEN {<<>>}
    ELSE SeqsUpTo(S, n - 1) \cup
         {Append(s, x) : s \in {t \in SeqsUpTo(S, n - 1) : Len(t) = n - 1}, x \in S}

HeaderLengths == {0, 25, 65516, 2147483647}
HeaderCmds    == {0, 99, 605, 65535}
HeaderFlags   == {0, 250, 255}
HeaderFwdIds  == {Repeat(0, 8), AsciiZeros8, <<1, 2, 3, 4, 5, 6, 7, 8>>}
PkgIds        == {0, 1, 258, 2147483647}
Headers       == [length : HeaderLengths, cmd : HeaderCmds, msg_flag : HeaderFlags,
                  deal_fl : {0, 1}, fwd_id : HeaderFwdIds, pkg_id : PkgIds]
Payloads      == SeqsUpTo({0, 255}, MaxPayload)
IdLists       == SeqsUpTo(PkgIds, MaxIds)

\* a control frame whose JSON text j is preceded by n NUL bytes
ControlFrame(cmd, j, n) ==
    ProtocolHeader_to_bytes(ProtocolHeader_new(cmd, n + 1, 255, 0))
        \o Repeat(0, n) \o <<JsonToken(j)>>


(***************************************************************************)
(* pipeline.rs serialize_response on the wire: the 20 header bytes each    *)
(* arm writes as a literal, followed by serde_json::to_vec of its body.    *)
(* A body is its ASCII bytes.                                              *)
(***************************************************************************)
\* vec![0x19, 0x00, 0x00, 0x00, 0x00, 0x00, 0xff, 0x00, 0xff, ...]
serialize_response_header ==
    <<25, 0, 0, 0, 0, 0, 255, 0, 255, 255, 255, 255, 255, 255, 255, 255, 0, 0, 0, 0>>

\* the decimal digits of n, as serde_json writes a number
RECURSIVE to_decimal(_)
to_decimal(n) ==
    IF n < 10 THEN <<48 + n>> ELSE to_decimal(n \div 10) \o <<48 + (n % 10)>>

\* {"code":101,"status":200}
Json_RegisterSuccess ==
    <<123, 34, 99, 111, 100, 101, 34, 58, 49, 48, 49, 44, 34, 115, 116, 97,
      116, 117, 115, 34, 58, 50, 48, 48, 125>>

\* {"code":50}
Json_StreamingTriggered ==
    <<123, 34, 99, 111, 100, 101, 34, 58, 53, 48, 125>>

\* {"code":<code>,"error":"Unknown message type"}
Json_Error(code) ==
    <<123, 34, 99, 111, 100, 101, 34, 58>>
    \o to_decimal(code) \o
    <<44, 34, 101, 114, 114, 111, 114, 34, 58, 34, 85, 110, 107, 110, 111,
      119, 110, 32, 109, 101, 115, 115, 97, 103, 101, 32, 116, 121, 112,
      101, 34, 125>>

WireResponses ==
    [kind : {"RegisterSuccess", "KeepaliveResponse", "StreamingTriggered",
             "NatProbeResponseSent", "UdpProbeResponseSent"}, code : {0}]
    \cup [kind : {"Error"}, code : {0, 7, 21, 301}]

\* serialize_response: Option<Vec<u8>>
serialize_response_wire(response) ==
    CASE response.kind = "RegisterSuccess" ->
            Some(serialize_response_header \o Json_RegisterSuccess)
      [] response.kind = "KeepaliveResponse" ->
            Some(serialize_response_KeepaliveResponse)
      [] response.kind = "StreamingTriggered" ->
            Some(serialize_response_header \o Json_StreamingTriggered)
      [] response.kind = "Error" ->
            Some(serialize_response_header \o Json_Error(response.code))
      [] OTHER -> <<>>

CodecInputs ==
    [kind : {"header"}, header : Headers, payload : Payloads]
    \cup [kind : {"keepalive"}, handler : {"pipeline", "router", "main"}]
    \cup [kind : {"batch"}, package_ids : IdLists, usize_bytes : UsizeBytes]
    \cup [kind : {"empty"}, package_ids : {<<>>}]
    \cup [kind : {"frame"}, cmd : {0, 87}, json : JsonTexts, nuls : 0..MaxNul]
    \cup [kind : {"code11"}, builder : {"pipeline", "router", "camera"},
          map_order : MapOrders]
    \cup [kind : {"response"}, response : WireResponses]

InitCodec ==
    /\ wire_op = "input" /\ wire_in \in CodecInputs /\ wire_out = None
    /\ BufferIdle /\ RouterIdle /\ PipelineIdle

\* binary.rs: to_bytes, the payload appended, then from_bytes
HeaderRoundTrip ==
    /\ wire_op = "input" /\ wire_in.kind = "header"
    /\ wire_op'  = "from_bytes"
    /\ wire_out' = ProtocolHeader_from_bytes(
                       ProtocolHeader_to_bytes(wire_in.header) \o wire_in.payload)
    /\ UNCHANGED <<wire_in, bufferVars, routerVars, pipelineVars>>

PipelineKeepaliveReply ==
    /\ wire_op = "input" /\ wire_in.kind = "keepalive"
    /\ wire_in.handler = "pipeline"
    /\ wire_op'  = "keepalive_reply"
    /\ wire_out' = serialize_response_KeepaliveResponse
    /\ UNCHANGED <<wire_in, bufferVars, routerVars, pipelineVars>>

TcpRouterKeepaliveReply ==
    /\ wire_op = "input" /\ wire_in.kind = "keepalive"
    /\ wire_in.handler = "router"
    /\ wire_op'  = "keepalive_reply"
    /\ wire_out' = TcpRouter_handle_keepalive_message
    /\ UNCHANGED <<wire_in, bufferVars, routerVars, pipelineVars>>

MainKeepaliveReply ==
    /\ wire_op = "input" /\ wire_in.kind = "keepalive"
    /\ wire_in.handler = "main"
    /\ wire_op'  = "keepalive_reply"
    /\ wire_out' = main_handle_tcp_connection_response
    /\ UNCHANGED <<wire_in, bufferVars, routerVars, pipelineVars>>

\* send_batch_retransmission_confirmation returns before building anything
\* when the id list is empty
BatchConfirmation ==
    /\ wire_op = "input" /\ wire_in.kind = "batch"
    /\ wire_op'  = "cmd605"
    /\ wire_out' = IF wire_in.package_ids = <<>> THEN None
                   ELSE batch_retransmission_message(wire_in.package_ids,
                                                     wire_in.usize_bytes)
    /\ UNCHANGED <<wire_in, bufferVars, routerVars, pipelineVars>>

EmptyConfirmation ==
    /\ wire_op = "input" /\ wire_in.kind = "empty"
    /\ wire_op'  = "cmd605"
    /\ wire_out' = empty_retransmission_message
    /\ UNCHANGED <<wire_in, bufferVars, routerVars, pipelineVars>>

DecodeControlFrame ==
    /\ wire_op = "input" /\ wire_in.kind = "frame"
    /\ wire_op'  = "decode"
    /\ wire_out' =
          LET data == ControlFrame(wire_in.cmd, wire_in.json, wire_in.nuls)
          IN  [router   |-> TcpRouter_process_message(data),
               pipeline |-> parse_message(data)]
    /\ UNCHANGED <<wire_in, bufferVars, routerVars, pipelineVars>>

\* the three builders of a code-11 body: the key sequence each one emits
BuildCode11 ==
    /\ wire_op = "input" /\ wire_in.kind = "code11"
    /\ wire_op' = "code11"
    /\ wire_out' = CASE wire_in.builder = "pipeline" -> pipeline_code11_json_string
                     [] wire_in.builder = "router" ->
                            TcpRouter_nat_probe_command(wire_in.map_order)
                     [] wire_in.builder = "camera" ->
                            create_code11_message(wire_in.map_order)
    /\ UNCHANGED <<wire_in, bufferVars, routerVars, pipelineVars>>

\* serialize_response on one Response
SerializeResponse ==
    /\ wire_op = "input" /\ wire_in.kind = "response"
    /\ wire_op' = "serialize_response"
    /\ wire_out' = serialize_response_wire(wire_in.response)
    /\ UNCHANGED <<wire_in, bufferVars, routerVars, pipelineVars>>

NextCodec ==
    \/ HeaderRoundTrip
    \/ PipelineKeepaliveReply
    \/ TcpRouterKeepaliveReply
    \/ MainKeepaliveReply
    \/ BatchConfirmation
    \/ EmptyConfirmation
    \/ DecodeControlFrame
    \/ BuildCode11
    \/ SerializeResponse

SpecCodec == InitCodec /\ [][NextCodec]_vars

\* C6: every reply to a TCP keepalive is exactly 20 bytes: bytes[4..8] are
\* 64 00 00 00, bytes[8..16] are ASCII "00000000", every other byte is zero,
\* in serialize_response, TcpRouter::handle_keepalive and main.rs alike.
C6_KeepaliveReplyPattern ==
    wire_op = "keepalive_reply" =>
        /\ Len(wire_out) = 20
        /\ \A i \in 1..20 :
              wire_out[i] = (CASE i = 5 -> 100 [] i \in 9..16 -> 48 [] OTHER -> 0)

\* C6, the two handlers that do follow the pattern
C6_PipelineAndMainReply ==
    (wire_op = "keepalive_reply" /\ wire_in.handler \in {"pipeline", "main"}) =>
        /\ Len(wire_out) = 20
        /\ \A i \in 1..20 :
              wire_out[i] = (CASE i = 5 -> 100 [] i \in 9..16 -> 48 [] OTHER -> 0)

C6_RouterReplySent ==
    /\ wire_op = "keepalive_reply" /\ wire_in.handler = "router"
    /\ Len(wire_out) = 20 /\ wire_out[5] = 99 /\ wire_out[7] = 255

C7_BatchBuilt64 ==
    /\ wire_op = "cmd605" /\ wire_in.kind = "batch" /\ wire_out # None
    /\ wire_in.usize_bytes = 8 /\ Len(wire_in.package_ids) = 1
    /\ Len(wire_out) = 24

\* C8: from_bytes(to_bytes(h) ++ payload) returns a header equal to h in
\* every field and the payload unchanged.
C8_HeaderRoundTrip ==
    wire_op = "from_bytes" =>
        /\ wire_out.ok
        /\ wire_out.header.length   = wire_in.header.length
        /\ wire_out.header.cmd      = wire_in.header.cmd
        /\ wire_out.header.msg_flag = wire_in.header.msg_flag
        /\ wire_out.header.deal_fl  = wire_in.header.deal_fl
        /\ wire_out.header.fwd_id   = wire_in.header.fwd_id
        /\ wire_out.header.pkg_id   = wire_in.header.pkg_id
        /\ wire_out.payload         = wire_in.payload

C8_RoundTripDone ==
    /\ wire_op = "from_bytes" /\ wire_out.ok
    /\ wire_in.header.cmd = 605 /\ wire_in.header.pkg_id = 258
    /\ wire_in.header.length = 65516 /\ Len(wire_in.payload) = MaxPayload

\* C9: 1 to 8 NUL bytes before the JSON body of a control frame decode to
\* the same message as the frame without them, in TcpRouter::process_message
\* and in the pipeline's parse_message.
C9_NulPrefixIgnored ==
    (wire_op = "decode" /\ wire_in.nuls \in 1..8) =>
        /\ wire_out.router =
              TcpRouter_process_message(ControlFrame(wire_in.cmd, wire_in.json, 0))
        /\ wire_out.pipeline =
              parse_message(ControlFrame(wire_in.cmd, wire_in.json, 0))

\* C9, the router path alone
C9_RouterIgnoresNul ==
    (wire_op = "decode" /\ wire_in.nuls \in 1..8) =>
        wire_out.router =
            TcpRouter_process_message(ControlFrame(wire_in.cmd, wire_in.json, 0))

C9_PipelineLosesRegister ==
    /\ wire_op = "decode" /\ wire_in.nuls = 1
    /\ wire_in.json.code = 100 /\ wire_in.json.typed /\ wire_in.json.uid
    /\ wire_out.router.handler = "handle_registration"
    /\ wire_out.pipeline = Unknown(0)

\* C11: every code-11 message the server emits serializes its JSON keys in
\* the order code, cliTarget, cliToken, cliIp, cliPort, cliNatIp, cliNatPort,
\* in each function that builds one.
C11_Code11KeyOrder ==
    wire_op = "code11" => wire_out = Code11Keys

\* The pipeline's body is a literal and has the keys in that order
C11_PipelineKeyOrder ==
    (wire_op = "code11" /\ wire_in.builder = "pipeline") => wire_out = Code11Keys

\* a json! body serialized through a BTreeMap: keys sorted, "code" last
C11_SortedKeys ==
    /\ wire_op = "code11" /\ wire_in.builder = "router"
    /\ wire_out = <<Key_cliIp, Key_cliNatIp, Key_cliNatPort, Key_cliPort,
                    Key_cliTarget, Key_cliToken, Key_code>>

(***************************************************************************)
(* types.rs: StreamBuffer.  A buffer is the record                         *)
(*   [frames, max_frames, current_frame]; current_frame is an Option.      *)
(* A method yields [sb, ret, handed]: the buffer afterwards, the value     *)
(* returned, and the frames it handed to add_complete_frame.               *)
(***************************************************************************)
StreamBuffer_new(max_frames) ==
    [frames |-> <<>>, max_frames |-> max_frames, current_frame |-> <<>>]

RECURSIVE Concat(_)
Concat(ss) == IF ss = <<>> THEN <<>> ELSE Head(ss) \o Concat(Tail(ss))

\* VecDeque::pop_front
pop_front(q) == IF q = <<>> THEN q ELSE Tail(q)

assemble_frame_KeepSizeBytes(frame) ==
    IF frame.fragments = <<>> THEN <<>> ELSE Some(Concat(frame.fragments))

\* assemble_frame: Option<Vec<u8>>
assemble_frame(frame) ==
    IF frame.fragments = <<>> THEN <<>>
    ELSE LET n    == Len(frame.fragments)
             last == frame.fragments[n]
             potential_size ==
                 from_le_bytes(SubSeq(last, Len(last) - 3, Len(last)))
             has_size_info ==
                 /\ Len(last) >= 4
                 /\ potential_size > 0 /\ potential_size < 1000000
         IN  Some(Concat(SubSeq(frame.fragments, 1, n - 1))
                    \o (IF has_size_info THEN SubSeq(last, 1, Len(last) - 4)
                        ELSE last))

add_complete_frame_EvictNewest(sb, frame) ==
    [sb EXCEPT !.frames =
        Append(IF Len(sb.frames) >= sb.max_frames /\ sb.frames # <<>>
               THEN SubSeq(sb.frames, 1, Len(sb.frames) - 1)
               ELSE sb.frames, frame)]

add_complete_frame(sb, frame) ==
    [sb EXCEPT !.frames =
        Append(IF Len(sb.frames) >= sb.max_frames THEN pop_front(sb.frames)
               ELSE sb.frames, frame)]

start_new_frame(sb, payload) ==
    [sb EXCEPT !.current_frame =
        Some([frame_type |-> 1, pkg_id |-> 0, fragments |-> <<payload>>,
              expected_size |-> <<>>, is_complete |-> FALSE])]

\* a continuation that opens an assembly when there is none
add_frame_fragment_Starts(sb, payload) ==
    IF sb.current_frame # <<>>
    THEN [sb EXCEPT !.current_frame[1].fragments = Append(@, payload)]
    ELSE start_new_frame(sb, payload)

add_frame_fragment(sb, payload) ==
    IF sb.current_frame # <<>>
    THEN [sb EXCEPT !.current_frame[1].fragments = Append(@, payload)]
    ELSE sb

complete_frame(sb, payload) ==
    IF sb.current_frame # <<>>
    THEN LET taken == sb.current_frame[1]
             frame == [taken EXCEPT
                         !.fragments = Append(@, payload),
                         !.expected_size =
                             IF Len(payload) >= 4
                             THEN Some(from_le_bytes(
                                     SubSeq(payload, Len(payload) - 3, Len(payload))))
                             ELSE @]
             empty == [sb EXCEPT !.current_frame = <<>>]
             complete == assemble_frame(frame)
         IN  IF complete # <<>>
             THEN [sb |-> add_complete_frame(empty, complete[1]), ret |-> TRUE,
                   handed |-> <<complete[1]>>]
             ELSE [sb |-> empty, ret |-> FALSE, handed |-> <<>>]
    ELSE [sb |-> sb, ret |-> FALSE, handed |-> <<>>]

complete_incomplete_frame(sb) ==
    IF sb.current_frame # <<>>
    THEN LET frame == sb.current_frame[1]
             empty == [sb EXCEPT !.current_frame = <<>>]
             complete == assemble_frame(frame)
         IN  IF Len(frame.fragments) > 1 /\ complete # <<>>
             THEN [sb |-> add_complete_frame(empty, complete[1]), ret |-> TRUE,
                   handed |-> <<complete[1]>>]
             ELSE [sb |-> empty, ret |-> FALSE, handed |-> <<>>]
    ELSE [sb |-> sb, ret |-> FALSE, handed |-> <<>>]

add_fragment(sb, cmd, msg_flag, pkg_id, payload) ==
    CASE cmd = 6 -> [sb |-> sb, ret |-> TRUE, handed |-> <<>>]
      [] cmd = 1 /\ msg_flag = 250 ->
            [sb |-> start_new_frame(sb, payload), ret |-> TRUE, handed |-> <<>>]
      [] cmd = 1 /\ msg_flag = 251 ->
            [sb |-> add_frame_fragment(sb, payload), ret |-> TRUE, handed |-> <<>>]
      [] cmd = 1 /\ msg_flag = 252 ->
            [complete_frame(sb, payload) EXCEPT !.ret = TRUE]
      [] OTHER -> [sb |-> sb, ret |-> FALSE, handed |-> <<>>]

StreamBuffer_clear(sb) == [sb EXCEPT !.frames = <<>>, !.current_frame = <<>>]

\* CameraConnection::add_video_frame
add_video_frame(sb, data) == add_complete_frame(sb, data)

\* the fragments of the assembly in progress
Fragments(sb) ==
    IF sb.current_frame = <<>> THEN <<>> ELSE sb.current_frame[1].fragments

(***************************************************************************)
(* SpecRing: one StreamBuffer of capacity 1..MaxCap driven through every   *)
(* caller of add_complete_frame; `completed` records the frames handed to  *)
(* it since the buffer was last cleared.                                   *)
(***************************************************************************)
MaxCap       == 2
MaxCompleted == 4
MaxFrags     == 3

FrameData    == {<<2>>, <<3>>}
RingPayloads == {<<1>>}
FragmentKinds == {<<1, 250>>, <<1, 251>>, <<1, 252>>, <<6, 255>>, <<4, 255>>}

ringOthers == <<delivery, sweepVars, codecVars, routerVars, pipelineVars>>

InitRing ==
    /\ stream_buffer \in {StreamBuffer_new(n) : n \in 1..MaxCap}
    /\ completed = <<>> /\ delivery = <<>> /\ SweepIdle
    /\ CodecIdle /\ RouterIdle /\ PipelineIdle

RingAddVideoFrame ==
    \E data \in FrameData :
        /\ Len(completed) < MaxCompleted
        /\ stream_buffer' = add_video_frame(stream_buffer, data)
        /\ completed' = Append(completed, data)
        /\ UNCHANGED ringOthers

RingAddFragment ==
    \E kind \in FragmentKinds, payload \in RingPayloads :
        LET r == add_fragment(stream_buffer, kind[1], kind[2], 0, payload) IN
        /\ Len(Fragments(r.sb)) < MaxFrags
        /\ Len(completed) + Len(r.handed) <= MaxCompleted
        /\ stream_buffer' = r.sb
        /\ completed' = completed \o r.handed
        /\ UNCHANGED ringOthers

RingCompleteIncomplete ==
    LET r == complete_incomplete_frame(stream_buffer) IN
    /\ Len(completed) + Len(r.handed) <= MaxCompleted
    /\ stream_buffer' = r.sb
    /\ completed' = completed \o r.handed
    /\ UNCHANGED ringOthers

RingClear ==
    /\ stream_buffer' = StreamBuffer_clear(stream_buffer)
    /\ completed' = <<>>
    /\ UNCHANGED ringOthers

NextRing ==
    \/ RingAddVideoFrame
    \/ RingAddFragment
    \/ RingCompleteIncomplete
    \/ RingClear

SpecRing == InitRing /\ [][NextRing]_vars

\* the last n elements of s, in order
LastN(s, n) == IF Len(s) <= n THEN s ELSE SubSeq(s, Len(s) - n + 1, Len(s))

\* C4: after any sequence of completions the ring of a StreamBuffer of
\* capacity N holds at most N frames, and they are exactly the most recently
\* completed frames in completion order (so a completion on a full ring
\* evicts the oldest frame only).
C4_RingHoldsMostRecent ==
    /\ Len(stream_buffer.frames) <= stream_buffer.max_frames
    /\ stream_buffer.frames = LastN(completed, stream_buffer.max_frames)

C4_RingEvicted ==
    /\ stream_buffer.max_frames = 2
    /\ Len(completed) = 4
    /\ completed[2] # completed[3] /\ completed[3] # completed[4]
    /\ Len(completed[4]) = 3
    /\ stream_buffer.frames = <<completed[3], completed[4]>>

(***************************************************************************)
(* SpecBuffer: fragment assembly on one StreamBuffer, byte payloads.       *)
(* `delivery` records a run of add_fragment calls made back to back on a   *)
(* buffer that had no assembly in progress: the ring before the run, and   *)
(* the (msg_flag, payload) of each cmd=1 call.                             *)
(***************************************************************************)
BufCap == 1

BufPayloads == {<<7>>, <<9, 5, 0, 0, 0>>}

bufOthers == <<completed, sweepVars, codecVars, routerVars, pipelineVars>>

InitBuffer ==
    /\ stream_buffer = StreamBuffer_new(BufCap)
    /\ completed = <<>> /\ delivery = <<>> /\ SweepIdle
    /\ CodecIdle /\ RouterIdle /\ PipelineIdle

BufAddFragment ==
    \E kind \in FragmentKinds, payload \in BufPayloads :
        LET r == add_fragment(stream_buffer, kind[1], kind[2], 0, payload) IN
        /\ Len(Fragments(r.sb)) < MaxFrags
        /\ stream_buffer' = r.sb
        /\ delivery' =
              IF kind = <<1, 250>> /\ stream_buffer.current_frame = <<>>
              THEN Some([pre |-> stream_buffer.frames,
                         run |-> <<[msg_flag |-> 250, payload |-> payload]>>])
              ELSE IF kind[1] = 1 /\ delivery # <<>> /\ Len(delivery[1].run) < 3
              THEN Some([delivery[1] EXCEPT
                           !.run = Append(@, [msg_flag |-> kind[2],
                                              payload  |-> payload])])
              ELSE <<>>
        /\ UNCHANGED bufOthers

\* UdpRouter::periodic_incomplete_frame_task on this buffer
BufCompleteIncomplete ==
    /\ stream_buffer' = complete_incomplete_frame(stream_buffer).sb
    /\ delivery' = <<>>
    /\ UNCHANGED bufOthers

BufClear ==
    /\ stream_buffer' = StreamBuffer_clear(stream_buffer)
    /\ delivery' = <<>>
    /\ UNCHANGED bufOthers

NextBuffer ==
    \/ BufAddFragment
    \/ BufCompleteIncomplete
    \/ BufClear

SpecBuffer == InitBuffer /\ [][NextBuffer]_vars

\* the payload ends in a size hint the assembler accepts
EndsInValidHint(p) ==
    /\ Len(p) >= 4
    /\ LET h == p[Len(p) - 3] + 256 * p[Len(p) - 2] + 65536 * p[Len(p) - 1]
                  + 16777216 * p[Len(p)]
       IN  h > 0 /\ h < 1000000

DeliveredFlags == [i \in 1..Len(delivery[1].run) |-> delivery[1].run[i].msg_flag]

ProbeState_NotStarted        == [tag |-> "NotStarted", count |-> 0]
ProbeState_InProgress(count) == [tag |-> "InProgress", count |-> count]
ProbeState_Completed         == [tag |-> "Completed", count |-> 0]

\* StreamBuffer::new(100) in CameraConnection::new, bounded here
CameraMaxFrames == 1

CameraConnection_new(ip) ==
    [state                     |-> "Disconnected",
     stream_buffer             |-> StreamBuffer_new(CameraMaxFrames),
     received_packages         |-> <<>>,
     udp_ports                 |-> {},
     first_retransmission_sent |-> FALSE,
     retransmission_bucket     |-> <<>>,
     tcp_conn                  |-> FALSE,
     random_video_port         |-> <<>>,
     probe_state               |-> ProbeState_NotStarted]

Range(s) == {s[i] : i \in 1..Len(s)}

add_received_package(camera, pkg_id) ==
    IF pkg_id \in Range(camera.received_packages) THEN camera
    ELSE [camera EXCEPT !.received_packages = Append(@, pkg_id)]

add_to_retransmission_bucket_Overwrite(camera, pkg_id) ==
    [camera EXCEPT !.retransmission_bucket = <<pkg_id>>]

add_to_retransmission_bucket(camera, pkg_id) ==
    IF pkg_id \in Range(camera.retransmission_bucket) THEN camera
    ELSE [camera EXCEPT !.retransmission_bucket = Append(@, pkg_id)]

\* the camera afterwards and the list returned
get_and_clear_retransmission_bucket(camera) ==
    [camera   |-> [camera EXCEPT !.retransmission_bucket = <<>>],
     packages |-> camera.retransmission_bucket]

get_or_create_camera(cams, ip) ==
    IF ip \in DOMAIN cams THEN cams ELSE cams @@ (ip :> CameraConnection_new(ip))

(***************************************************************************)
(* router/udp.rs: the port a retransmission confirmation is sent to.       *)
(* tokio's RwLock::try_read fails while a write guard is out, also when    *)
(* the caller itself holds it.  keys().next() of a HashMap is any key.     *)
(* The result is the set of Option<u16> the lookup can produce.            *)
(***************************************************************************)
camera_udp_port(cams, camera_ip, camera_lock) ==
    IF camera_ip \notin DOMAIN cams THEN {<<>>}
    ELSE IF camera_lock = "write" THEN {<<>>}
    ELSE IF cams[camera_ip].udp_ports = {} THEN {<<>>}
    ELSE {Some(port) : port \in cams[camera_ip].udp_ports}

(***************************************************************************)
(* SpecRouter: UdpRouter's handlers and the TcpRouter operations on the    *)
(* same CameraManager that start and stop streaming.                       *)
(***************************************************************************)
MaxSent == 2

CameraIps       == {1}
CameraPorts     == {40000}
RouterPkgIds    == {1, 2}
RouterPayload   == <<7>>
RouterFrameKinds == {<<1, 250>>, <<1, 251>>, <<1, 252>>, <<6, 255>>}

routerOthers == <<codecVars, bufferVars, pipelineVars, controlVars, socketVars>>

ControlIdle ==
    /\ manager_lock = None /\ tcp_task = <<>> /\ udp_task = None
    /\ control_turn = None /\ code51_seen = <<>>

\* one CMD=605 datagram in the history
Datagram605(cams, ip, ids) ==
    [ids |-> ids,
     streaming |-> (ip \in DOMAIN cams /\ cams[ip].state = "Streaming"),
     since |-> received_since[ip]]

InitRouter ==
    /\ cameras = <<>>
    /\ sent605 = [ip \in CameraIps |-> <<>>]
    /\ received_since = [ip \in CameraIps |-> {}]
    /\ last_event = [flushed |-> FALSE, packages |-> <<>>]
    /\ ControlIdle /\ SocketIdle
    /\ CodecIdle /\ BufferIdle /\ PipelineIdle

\* UdpRouter::process_message, cmd 1 | 4 | 6 | 7: handle_video_frame.
\* The handler holds the camera's write guard from line 165 to its end, so
\* both send_* functions are called with it held.
handle_video_frame ==
    \E ip \in CameraIps, port \in CameraPorts, kind \in RouterFrameKinds,
       pkg_id \in RouterPkgIds :
        LET cams1 == get_or_create_camera(cameras, ip)
            r     == add_fragment(cams1[ip].stream_buffer, kind[1], kind[2],
                                  pkg_id, RouterPayload)
            c1    == [cams1[ip] EXCEPT !.udp_ports = @ \cup {port},
                                       !.stream_buffer = r.sb]
            c2    == add_to_retransmission_bucket(c1, pkg_id)
            first == kind[2] = 252 /\ ~c2.first_retransmission_sent
            flush == kind[2] = 252 /\ c2.first_retransmission_sent
            taken == get_and_clear_retransmission_bucket(c2)
            c3    == IF first THEN [c2 EXCEPT !.first_retransmission_sent = TRUE]
                     ELSE IF flush THEN taken.camera
                     ELSE c2
            cams3 == [cams1 EXCEPT ![ip] = c3]
            since == received_since[ip] \cup {pkg_id}
        IN  /\ Len(Fragments(r.sb)) < MaxFrags
            /\ \E target \in camera_udp_port(cams3, ip, "write") :
                  sent605' =
                      IF target # <<>> /\ first
                      THEN [sent605 EXCEPT ![ip] =
                              Append(@, [Datagram605(cams3, ip, <<>>)
                                            EXCEPT !.since = since])]
                      ELSE IF target # <<>> /\ flush /\ taken.packages # <<>>
                      THEN [sent605 EXCEPT ![ip] =
                              Append(@, [Datagram605(cams3, ip, taken.packages)
                                            EXCEPT !.since = since])]
                      ELSE sent605
            /\ Len(sent605'[ip]) <= MaxSent
            /\ cameras' = [cams3 EXCEPT ![ip] = add_received_package(c3, pkg_id)]
            /\ received_since' =
                  [received_since EXCEPT ![ip] = IF flush THEN {} ELSE since]
            /\ last_event' = [flushed |-> flush,
                              packages |-> IF flush THEN taken.packages ELSE <<>>]
            /\ UNCHANGED routerOthers

\* UdpRouter::process_message, cmd 100: handle_udp_heartbeat
handle_udp_heartbeat ==
    \E ip \in CameraIps, port \in CameraPorts :
        LET cams1 == get_or_create_camera(cameras, ip)
            cams2 == [cams1 EXCEPT ![ip].udp_ports = @ \cup {port}]
        IN  /\ Len(sent605[ip]) < MaxSent
            /\ cameras' = cams2
            /\ sent605' = [sent605 EXCEPT ![ip] =
                              Append(@, Datagram605(cams2, ip, <<>>))]
            /\ last_event' = [flushed |-> FALSE,
                              packages |-> <<>>]
            /\ UNCHANGED <<received_since, routerOthers>>

\* UdpRouter::periodic_incomplete_frame_task, one tick
periodic_incomplete_frame_task ==
    /\ cameras' = [ip \in DOMAIN cameras |->
                     [cameras[ip] EXCEPT !.stream_buffer =
                         complete_incomplete_frame(@).sb]]
    /\ last_event' = [flushed |-> FALSE,
                      packages |-> <<>>]
    /\ UNCHANGED <<sent605, received_since, routerOthers>>

\* TcpRouter::start_streaming_for_camera.  The code-11 request it writes goes
\* to the camera's TCP stream; the CameraManager part is lines 653-662.
start_streaming_for_camera ==
    \E ip \in CameraIps :
        LET cams1 == get_or_create_camera(cameras, ip) IN
        /\ cameras' = [cams1 EXCEPT ![ip].state = "Streaming",
                                    ![ip].first_retransmission_sent = FALSE]
        /\ sent605' = [sent605 EXCEPT ![ip] = <<>>]
        /\ last_event' = [flushed |-> FALSE,
                          packages |-> <<>>]
        /\ UNCHANGED <<received_since, routerOthers>>

\* TcpRouter::stop_streaming_for_camera
stop_streaming_for_camera ==
    \E ip \in CameraIps :
        /\ cameras' =
              IF ip \in DOMAIN cameras
              THEN [cameras EXCEPT ![ip].udp_ports = {},
                                   ![ip].stream_buffer = StreamBuffer_clear(@),
                                   ![ip].state = "Idle"]
              ELSE cameras
        /\ last_event' = [flushed |-> FALSE,
                          packages |-> <<>>]
        /\ UNCHANGED <<sent605, received_since, routerOthers>>

NextRouter ==
    \/ handle_video_frame
    \/ handle_udp_heartbeat
    \/ periodic_incomplete_frame_task
    \/ start_streaming_for_camera
    \/ stop_streaming_for_camera

SpecRouter == InitRouter /\ [][NextRouter]_vars

\* the CMD=605 datagrams sent to the camera while it was in state Streaming
StreamingLog(ip) == SelectSeq(sent605[ip], LAMBDA d : d.streaming)

\* C2: for each session, the first CMD=605 after streaming begins carries an
\* empty id list; every later one carries a non-empty list, equal to the set
\* of pkg_ids received since the previous flush.
C2_FirstEmptyThenBatches ==
    \A ip \in CameraIps :
        LET log == StreamingLog(ip) IN
        /\ Len(log) >= 1 => log[1].ids = <<>>
        /\ \A i \in 2..Len(log) :
              /\ log[i].ids # <<>>
              /\ Range(log[i].ids) = log[i].since

\* What the router does send: every CMD=605 it emits has an empty id list
\* (the replies to cmd=100 heartbeats); handle_video_frame emits none.
RouterSendsOnlyEmpty605 ==
    \A ip \in CameraIps : \A i \in 1..Len(sent605[ip]) : sent605[ip][i].ids = <<>>

\* a flush that returned two ids while the camera was streaming, with no
\* datagram sent for it
C2_FlushWithoutDatagram ==
    /\ last_event.flushed /\ Len(last_event.packages) = 2
    /\ \A ip \in CameraIps : sent605[ip] = <<>>
    /\ \E ip \in DOMAIN cameras : cameras[ip].state = "Streaming"

\* C3: between two consecutive flushes (get_and_clear_retransmission_bucket)
\* no id is removed from a session's bucket, and immediately after each
\* flush the bucket is empty.
C3_BucketBetweenFlushes ==
    [][\A ip \in DOMAIN cameras :
          IF last_event'.flushed
          THEN cameras'[ip].retransmission_bucket = <<>>
          ELSE Range(cameras[ip].retransmission_bucket)
                  \subseteq Range(cameras'[ip].retransmission_bucket)]_vars

C3_FlushedTwoIds ==
    /\ last_event.flushed /\ Len(last_event.packages) = 2
    /\ \E ip \in DOMAIN cameras : cameras[ip].retransmission_bucket = <<>>

(***************************************************************************)
(* pipeline.rs, net/tcp.rs, net/udp.rs, web.rs: the worker pipeline.       *)
(* A CameraSession is the record                                           *)
(*   [ip, streaming_protocol_state, pending_command].                      *)
(* A message the server sends is [kind, code, content]: the JSON "code" of *)
(* its body and the "code" inside its "content" object.                    *)
(***************************************************************************)
JsonMessage(code, content) == [kind |-> "json", code |-> code, content |-> content]

\* the 20-byte reply of serialize_response_KeepaliveResponse; code is byte 4
KeepaliveMessage == [kind |-> "keepalive", code |-> 100, content |-> Absent]

\* types::CameraSession::new
CameraSession_new(ip) ==
    [ip |-> ip, streaming_protocol_state |-> "Registered", pending_command |-> <<>>]

\* the `for (device_id, session) in sessions.iter_mut()` search: the first
\* session in HashMap iteration order whose address has this ip
find_session_by_ip(sess, ip) ==
    LET hits == {d \in DOMAIN sess : sess[d].ip = ip} IN
    IF hits = {} THEN {<<>>} ELSE {Some(d) : d \in hits}

\* net/tcp.rs TcpRouter::send_to_conn: the frames put on the channel
send_to_conn(conns, conn_id, response) ==
    IF conn_id \in DOMAIN conns
    THEN <<[conn |-> conn_id, msg |-> response]>>
    ELSE <<>>

\* net/udp.rs UdpSender::send_to
UdpSender_send_to(ip, data) == <<[ip |-> ip, msg |-> data]>>

Response(kind, code) == [kind |-> kind, code |-> code]

\* pipeline.rs handle_message_with_addr, Message::Register
handle_Register(frame, sess) ==
    LET device_id == frame.uid
        created   == CameraSession_new(frame.ip)
        session   == IF device_id \in DOMAIN sess
                     THEN [created EXCEPT
                             !.streaming_protocol_state =
                                 sess[device_id].streaming_protocol_state,
                             !.pending_command = sess[device_id].pending_command]
                     ELSE created
    IN  [sessions |-> [d \in DOMAIN sess \cup {device_id} |->
                          IF d = device_id THEN session ELSE sess[d]],
         response |-> Response("RegisterSuccess", 0),
         dev |-> Some(device_id), tcp |-> <<>>, udp |-> <<>>]

\* the outcome of an arm that is still awaiting when every other task is done
ReadUnderWriteGuard == Response("ReadUnderWriteGuard", 0)

\* the arms of handle_message_with_addr that take camera_sessions.write()
takes_write_lock(message) ==
    message.kind \in {"Register", "Keepalive", "StartStreaming", "TriggerStreaming",
                      "NatProbeResponse", "UdpProbeRequest"}

RwLock_write_Unguarded(lock) == TRUE

\* tokio::sync::RwLock::write().await completes when nobody holds the lock
RwLock_write_ready(lock) == lock = "free"

\* pipeline.rs handle_message_with_addr, Message::Keepalive
handle_Keepalive(frame, sess, conns, found) ==
    IF found = <<>>
    THEN \* no session has the peer's ip: the arm awaits camera_sessions.read()
         \* inside the block that holds the write guard, and never returns
         [sessions |-> sess, response |-> ReadUnderWriteGuard,
          dev |-> found, tcp |-> <<>>, udp |-> <<>>]
    ELSE IF sess[found[1]].pending_command = <<>>
    THEN [sessions |-> sess, response |-> Response("KeepaliveResponse", 0),
          dev |-> found, tcp |-> <<>>, udp |-> <<>>]
    ELSE LET device_id == found[1]
             command   == sess[device_id].pending_command[1]
             taken     == [sess EXCEPT ![device_id].pending_command = <<>>]
         IN  IF command = "code11" /\ frame.conn_id # <<>>
             THEN [sessions |-> [taken EXCEPT ![device_id].streaming_protocol_state =
                                                 "WaitingForNatResponse"],
                   response |-> Response("NatProbeResponseSent", 0),
                   dev |-> found,
                   tcp |-> send_to_conn(conns, frame.conn_id[1],
                                        JsonMessage(11, Absent)),
                   udp |-> <<>>]
             ELSE [sessions |-> taken, response |-> Response("KeepaliveResponse", 0),
                   dev |-> found, tcp |-> <<>>, udp |-> <<>>]

\* pipeline.rs handle_message_with_addr, Message::NatProbeResponse
handle_NatProbeResponse(frame, sess, conns, found) ==
    LET quiet(s) == [sessions |-> s, response |-> Response("NatProbeResponseSent", 0),
                     dev |-> found, tcp |-> <<>>, udp |-> <<>>]
    IN
    IF found = <<>> THEN quiet(sess)
    ELSE LET device_id == found[1]
             state     == sess[device_id].streaming_protocol_state
         IN  CASE state = "WaitingForNatResponse" ->
                    quiet([sess EXCEPT ![device_id].streaming_protocol_state =
                                          "WaitingForUdpProbe"])
               [] state = "WaitingForFinalNatResponse" ->
                    IF frame.conn_id = <<>>
                    THEN quiet([sess EXCEPT ![device_id].streaming_protocol_state =
                                               "ProtocolComplete"])
                    ELSE [quiet([sess EXCEPT ![device_id].streaming_protocol_state =
                                                "Streaming"])
                            EXCEPT !.tcp =
                              send_to_conn(conns, frame.conn_id[1], JsonMessage(301, 298))
                              \o send_to_conn(conns, frame.conn_id[1], JsonMessage(301, 4))
                              \o send_to_conn(conns, frame.conn_id[1], JsonMessage(301, 3))]
               [] OTHER -> quiet(sess)

\* pipeline.rs handle_message_with_addr, Message::UdpProbeRequest
handle_UdpProbeRequest(frame, sess, found) ==
    IF found # <<>> /\ sess[found[1]].streaming_protocol_state = "WaitingForUdpProbe"
    THEN [sessions |-> [sess EXCEPT ![found[1]].streaming_protocol_state =
                                       "WaitingForFinalNatResponse"],
          response |-> Response("UdpProbeResponseSent", 0), dev |-> found,
          tcp |-> <<>>, udp |-> UdpSender_send_to(frame.ip, JsonMessage(21, Absent))]
    ELSE [sessions |-> sess, response |-> Response("UdpProbeResponseSent", 0),
          dev |-> found, tcp |-> <<>>, udp |-> <<>>]

\* pipeline.rs handle_message_with_addr.  `found` is the outcome of the
\* search by ip that the Keepalive, NatProbeResponse and UdpProbeRequest
\* arms make; frame.addr is Some for every frame a dispatcher builds.
handle_message_with_addr(message, frame, sess, conns, found) ==
    CASE message.kind = "Register"         -> handle_Register(frame, sess)
      [] message.kind = "Keepalive"        -> handle_Keepalive(frame, sess, conns, found)
      [] message.kind = "NatProbeResponse" ->
            handle_NatProbeResponse(frame, sess, conns, found)
      [] message.kind = "UdpProbeRequest"  -> handle_UdpProbeRequest(frame, sess, found)
      [] message.kind = "Unknown" ->
            [sessions |-> sess, response |-> Response("Error", message.code),
             dev |-> <<>>, tcp |-> <<>>, udp |-> <<>>]

\* pipeline.rs serialize_response: Option<message>
serialize_response(response) ==
    CASE response.kind = "RegisterSuccess"      -> Some(JsonMessage(101, Absent))
      [] response.kind = "KeepaliveResponse"    -> Some(KeepaliveMessage)
      [] response.kind = "Error"                -> Some(JsonMessage(response.code, Absent))
      [] response.kind = "NatProbeResponseSent" -> <<>>
      [] response.kind = "UdpProbeResponseSent" -> <<>>

(***************************************************************************)
(* SpecPipeline: the dispatchers, the worker and the web handler.  Worker  *)
(* tasks are spawned per frame, so the frames in flight are processed in   *)
(* any order and may outlive the connection they were read from.           *)
(***************************************************************************)
MaxConnections == 2
MaxInflight    == 1

DeviceIds   == {"cam01"}
PipelineIps == {1}

RegisterText    == [code |-> 100, typed |-> TRUE, uid |-> TRUE, content |-> Absent]
NatResponseText == [code |-> 12, typed |-> TRUE, uid |-> FALSE, content |-> Absent]
\* a code-20 body that deserializes into ProtocolMessage, and one that does
\* not (a field of another type than the struct declares)
UdpProbeTexts   == [code : {20}, typed : BOOLEAN, uid : {FALSE}, content : {Absent}]

\* a body whose code no arm of parse_message names
UnhandledText   == [code |-> 7, typed |-> FALSE, uid |-> FALSE, content |-> Absent]
\* the camera's echo of the forward command 301 with content.code 4
EchoText        == [code |-> 301, typed |-> TRUE, uid |-> FALSE, content |-> 4]

\* what a camera sends: the bytes, and the "uid" string of a registration
FrameBodies ==
    {[bytes |-> Repeat(0, 20), uid |-> ""]}
    \cup {[bytes |-> ControlFrame(0, RegisterText, 0), uid |-> d] : d \in DeviceIds}
    \cup {[bytes |-> ControlFrame(0, j, 0), uid |-> ""] :
              j \in {NatResponseText, UnhandledText, EchoText} \cup UdpProbeTexts}

RawFrame(conn_id, ip, body) ==
    [conn_id |-> conn_id, ip |-> ip, bytes |-> body.bytes, uid |-> body.uid]

NoSession == [ip |-> 0, streaming_protocol_state |-> "", pending_command |-> <<>>]
NoTurn ==
    [msg |-> "", code |-> Absent, conn_id |-> <<>>, registered |-> FALSE,
     dev |-> <<>>,
     pre |-> NoSession, post |-> NoSession, tcp_out |-> <<>>, udp_out |-> <<>>,
     returned |-> TRUE, echo_received |-> FALSE]

PoolIdle == ingress = <<>> /\ tasks = <<>> /\ permits = 0 /\ pushed = 0

ListenerIdle ==
    awaited = 0 /\ backlog = <<>> /\ handled = <<>> /\ accept_errors = {}

pipelineOthers == <<codecVars, bufferVars, routerVars, poolVars, listenerVars>>

InitPipeline ==
    /\ sessions = <<>> /\ connections = <<>> /\ connection_id = 0
    /\ inflight = {} /\ turn = NoTurn /\ script = <<>>
    /\ opened = {} /\ sessions_lock = "free" /\ PoolIdle /\ ListenerIdle
    /\ CodecIdle /\ BufferIdle /\ RouterIdle

\* net/tcp.rs accept_loop, and the register_connection with which the
\* spawned handle_tcp_connection begins
accept_loop ==
    \E ip \in PipelineIps :
        /\ connection_id < MaxConnections
        /\ connection_id' = connection_id + 1
        /\ connections' = [c \in DOMAIN connections \cup {connection_id + 1} |->
                             IF c = connection_id + 1 THEN ip ELSE connections[c]]
        /\ opened' = opened \cup {ip}
        /\ UNCHANGED <<sessions, inflight, turn, script, sessions_lock,
                       pipelineOthers>>

\* net/tcp.rs handle_tcp_connection, read arm Ok(n): the frame is queued
handle_tcp_connection_read ==
    \E conn_id \in DOMAIN connections, body \in FrameBodies :
        /\ Cardinality(inflight) < MaxInflight
        /\ inflight' = inflight \cup {RawFrame(Some(conn_id), connections[conn_id], body)}
        /\ UNCHANGED <<sessions, connections, connection_id, turn, script,
                       opened, sessions_lock, pipelineOthers>>

\* net/tcp.rs handle_tcp_connection, read arm Ok(0) or Err: the loop ends
\* and remove_connection runs
handle_tcp_connection_close ==
    \E conn_id \in DOMAIN connections :
        /\ connections' = [c \in DOMAIN connections \ {conn_id} |-> connections[c]]
        /\ UNCHANGED <<sessions, connection_id, inflight, turn, script,
                       opened, sessions_lock, pipelineOthers>>

\* net/udp.rs recv_loop: a datagram is queued with conn_id None
recv_loop ==
    \E ip \in PipelineIps, body \in FrameBodies :
        /\ Cardinality(inflight) < MaxInflight
        /\ inflight' = inflight \cup {RawFrame(<<>>, ip, body)}
        /\ UNCHANGED <<sessions, connections, connection_id, turn, script,
                       opened, sessions_lock, pipelineOthers>>

\* web.rs send_code11_handler (livestream_handler queues the same command)
send_code11_handler ==
    \E device_id \in DOMAIN sessions :
        /\ RwLock_write_ready(sessions_lock)
        /\ sessions' = [sessions EXCEPT ![device_id].pending_command = Some("code11")]
        /\ UNCHANGED <<connections, connection_id, inflight, turn, script,
                       opened, sessions_lock, pipelineOthers>>

\* the messages of the handshake, in order, and how each one arrives
ScriptKinds == <<"Keepalive", "NatProbeResponse", "UdpProbeRequest", "NatProbeResponse">>
ScriptOverTcp == <<TRUE, TRUE, FALSE, TRUE>>

StartsScript(t) ==
    /\ t.msg = "Keepalive" /\ t.conn_id # <<>> /\ t.dev # <<>>
    /\ t.pre.streaming_protocol_state = "Registered"
    /\ t.pre.pending_command = Some("code11")

ExtendsScript(t) ==
    /\ Len(script) \in 1..3
    /\ t.msg = ScriptKinds[Len(script) + 1]
    /\ (t.conn_id # <<>>) = ScriptOverTcp[Len(script) + 1]
    /\ t.dev = script[1].dev

\* pipeline.rs process_frame, run by a task of WorkerPool::run
process_frame ==
    \E frame \in inflight :
    \E found \in find_session_by_ip(sessions, frame.ip) :
        LET message  == parse_message(frame.bytes)
            h        == handle_message_with_addr(message, frame, sessions,
                                                 connections, found)
            returned == h.response # ReadUnderWriteGuard
            response_bytes == IF returned THEN serialize_response(h.response)
                              ELSE <<>>
            reply_tcp == IF response_bytes # <<>> /\ frame.conn_id # <<>>
                         THEN send_to_conn(connections, frame.conn_id[1],
                                           response_bytes[1])
                         ELSE <<>>
            reply_udp == IF response_bytes # <<>> /\ frame.conn_id = <<>>
                         THEN UdpSender_send_to(frame.ip, response_bytes[1])
                         ELSE <<>>
            t == [msg        |-> message.kind,
                  code       |-> IF message.kind = "Unknown" THEN message.code
                                 ELSE Absent,
                  conn_id    |-> frame.conn_id,
                  registered |-> (frame.conn_id # <<>>
                                  /\ frame.conn_id[1] \in DOMAIN connections),
                  dev        |-> h.dev,
                  pre        |-> IF h.dev # <<>> /\ h.dev[1] \in DOMAIN sessions
                                 THEN sessions[h.dev[1]] ELSE NoSession,
                  post       |-> IF h.dev # <<>> THEN h.sessions[h.dev[1]]
                                 ELSE NoSession,
                  tcp_out    |-> h.tcp \o reply_tcp,
                  udp_out    |-> h.udp \o reply_udp,
                  returned   |-> returned,
                  \* history: a 301 echo of the camera has been processed
                  echo_received |-> (turn.echo_received
                                       \/ (message.kind = "Unknown"
                                             /\ message.code = 301))]
        IN  /\ takes_write_lock(message) => RwLock_write_ready(sessions_lock)
            /\ sessions_lock' = IF returned THEN sessions_lock ELSE "write"
            /\ inflight' = inflight \ {frame}
            /\ sessions' = h.sessions
            /\ turn' = t
            /\ script' = IF ExtendsScript(t) THEN Append(script, t)
                         ELSE IF StartsScript(t) THEN <<t>>
                         ELSE <<>>
            /\ UNCHANGED <<connections, connection_id, opened, pipelineOthers>>

NextPipeline ==
    \/ accept_loop
    \/ handle_tcp_connection_read
    \/ handle_tcp_connection_close
    \/ recv_loop
    \/ send_code11_handler
    \/ process_frame

SpecPipeline == InitPipeline /\ [][NextPipeline]_vars

Msgs(out) == [i \in 1..Len(out) |-> out[i].msg]

\* the handshake ran on registered connections: every TCP turn of the script
\* found its connection in the router map
ScriptOnRegisteredConnections ==
    /\ Len(script) = 4
    /\ \A i \in {1, 2, 4} : script[i].registered

\* C1: from a session in state Registered with a pending StartStream,
\* processing a TCP keepalive, a code-12, a UDP code-20 and a second code-12
\* ends in state Streaming, with code-11 sent after the keepalive, code-21
\* after the code-20, and the triplet code 53, 301/298, 301/4 emitted once,
\* in that order, after the second code-12.
C1_HandshakeTriplet ==
    ScriptOnRegisteredConnections =>
        /\ script[4].post.streaming_protocol_state = "Streaming"
        /\ Msgs(script[1].tcp_out) = <<JsonMessage(11, Absent)>>
        /\ script[1].udp_out = <<>>
        /\ script[2].tcp_out = <<>> /\ script[2].udp_out = <<>>
        /\ script[3].tcp_out = <<>>
        /\ Msgs(script[3].udp_out) = <<JsonMessage(21, Absent)>>
        /\ Msgs(script[4].tcp_out) =
              <<JsonMessage(53, Absent), JsonMessage(301, 298), JsonMessage(301, 4)>>
        /\ script[4].udp_out = <<>>

\* What the pipeline emits after the second code-12: 301/298, 301/4, 301/3
PipelineHandshakeEmits ==
    ScriptOnRegisteredConnections =>
        /\ script[4].post.streaming_protocol_state = "Streaming"
        /\ Msgs(script[1].tcp_out) = <<JsonMessage(11, Absent)>>
        /\ script[2].tcp_out = <<>> /\ script[2].udp_out = <<>>
        /\ Msgs(script[3].udp_out) = <<JsonMessage(21, Absent)>>
        /\ Msgs(script[4].tcp_out) =
              <<JsonMessage(301, 298), JsonMessage(301, 4), JsonMessage(301, 3)>>

\* a TCP keepalive was processed for a session with a pending StartStream
KeepaliveWithPending ==
    /\ turn.msg = "Keepalive" /\ turn.conn_id # <<>> /\ turn.dev # <<>>
    /\ turn.pre.pending_command = Some("code11")

\* C10: when a TCP keepalive is processed for a session whose pending command
\* is StartStream, exactly one TCP frame (the code-11 message) is emitted on
\* the connection, no keepalive reply is emitted, the pending command is
\* cleared and the handshake state becomes NatProbeSent.
C10_KeepaliveRunsStartStream ==
    KeepaliveWithPending =>
        /\ turn.tcp_out = <<[conn |-> turn.conn_id[1], msg |-> JsonMessage(11, Absent)]>>
        /\ turn.udp_out = <<>>
        /\ turn.post.pending_command = <<>>
        /\ turn.post.streaming_protocol_state = "WaitingForNatResponse"

\* The same with the connection still in the router map when the worker runs
C10_OnRegisteredConnection ==
    (KeepaliveWithPending /\ turn.registered) =>
        /\ turn.tcp_out = <<[conn |-> turn.conn_id[1], msg |-> JsonMessage(11, Absent)]>>
        /\ turn.udp_out = <<>>
        /\ turn.post.pending_command = <<>>
        /\ turn.post.streaming_protocol_state = "WaitingForNatResponse"

\* the command was taken and the state advanced with nothing sent
C10_CommandLost ==
    /\ KeepaliveWithPending /\ ~turn.registered
    /\ turn.tcp_out = <<>>
    /\ turn.post.pending_command = <<>>
    /\ turn.post.streaming_protocol_state = "WaitingForNatResponse"

ReRegistration == turn.msg = "Register" /\ turn.pre # NoSession

\* C12: after a code-100 registration is processed for a device that already
\* has a session, whatever handshake state that session was in, its handshake
\* state is Registered and its pending command is the one it had before.
C12_ReRegistrationResets ==
    ReRegistration =>
        /\ turn.post.streaming_protocol_state = "Registered"
        /\ turn.post.pending_command = turn.pre.pending_command

\* What the Register arm does for an existing session: both the handshake
\* state and the pending command are carried over
C12_ReRegistrationPreserves ==
    ReRegistration =>
        /\ turn.post.streaming_protocol_state = turn.pre.streaming_protocol_state
        /\ turn.post.pending_command = turn.pre.pending_command

\* a registration arrives in mid-handshake and the session stays there
C12_MidHandshakeKept ==
    /\ ReRegistration
    /\ turn.pre.streaming_protocol_state = "WaitingForNatResponse"
    /\ turn.post.streaming_protocol_state = "WaitingForNatResponse"

\* the handshake order: Registered, NatProbeSent, UdpProbed, WaitingForFinalNat,
\* Streaming, under the names of StreamingProtocolState
StateRank(state) ==
    CASE state = "Registered" -> 0
      [] state = "WaitingForNatResponse" -> 1
      [] state = "WaitingForUdpProbe" -> 2
      [] state = "WaitingForFinalNatResponse" -> 3
      [] state = "ProtocolComplete" -> 4
      [] state = "Streaming" -> 5

\* C13: for every event other than a registration, a session's handshake state
\* after the event is the same as or later than its state before; no keepalive,
\* code-12, code-20 or operator command moves a session to an earlier state.
C13_StateNeverRegresses ==
    [][\A d \in DOMAIN sessions \cap DOMAIN sessions' :
          ~(turn' # turn /\ turn'.msg = "Register")
          => StateRank(sessions'[d].streaming_protocol_state)
               >= StateRank(sessions[d].streaming_protocol_state)]_vars

\* Only a keepalive that runs a pending command moves a session backwards
C13_OnlyKeepaliveRegresses ==
    [][\A d \in DOMAIN sessions \cap DOMAIN sessions' :
          StateRank(sessions'[d].streaming_protocol_state)
              < StateRank(sessions[d].streaming_protocol_state)
          => /\ turn'.msg = "Keepalive"
             /\ sessions[d].pending_command = Some("code11")
             /\ sessions'[d].streaming_protocol_state = "WaitingForNatResponse"]_vars

\* a streaming session is sent back to the NAT probe by a keepalive
C13_StreamingBackToNatProbe ==
    /\ turn.msg = "Keepalive"
    /\ turn.pre.streaming_protocol_state = "Streaming"
    /\ turn.post.streaming_protocol_state = "WaitingForNatResponse"

\* C14: within the lifetime of one session, once first_retransmission_sent
\* (first_end_frame_seen) has become true it never becomes false again, under
\* any sequence of video packets, keepalives and operator start/stop requests.
C14_FirstEndFrameSticky ==
    [][\A ip \in DOMAIN cameras \cap DOMAIN cameras' :
          cameras[ip].first_retransmission_sent
          => cameras'[ip].first_retransmission_sent]_vars

\* Video packets, heartbeats, the periodic task and a stop request keep the flag
C14_OnlyStartClearsFlag ==
    [][\A ip \in DOMAIN cameras \cap DOMAIN cameras' :
          (cameras[ip].first_retransmission_sent
           /\ ~cameras'[ip].first_retransmission_sent)
          => /\ cameras'[ip].state = "Streaming"
             /\ sent605'[ip] = <<>>
             /\ last_event' = [flushed |-> FALSE, packages |-> <<>>]]_vars

\* C15: in every reachable state, the session registry contains a session for
\* a source ip only if that camera has at least opened its TCP registration
\* connection; no UDP packet from an ip with no TCP connection creates a session.
C15_SessionsOnlyAfterTcp ==
    \A d \in DOMAIN sessions : sessions[d].ip \in opened

\* Every session comes from a Register message, whatever socket carried it
C15_SessionsOnlyByRegister ==
    [][\A d \in DOMAIN sessions' \ DOMAIN sessions :
          turn'.msg = "Register" /\ turn'.dev = Some(d)]_vars

\* a code-100 datagram created a session before any TCP connection was accepted
C15_SessionFromDatagram ==
    /\ connection_id = 0
    /\ turn.msg = "Register" /\ turn.conn_id = <<>>
    /\ turn.pre = NoSession
    /\ turn.dev # <<>> /\ turn.dev[1] \in DOMAIN sessions

\* C17: when a camera's TCP connection ends (zero-byte read or read error),
\* its session is removed from the session registry and its connection id is
\* removed from the TCP router map; no session outlives its TCP connection.
C17_SessionEndsWithConnection ==
    [][\A c \in DOMAIN connections \ DOMAIN connections' :
          \A d \in DOMAIN sessions' :
              sessions'[d].ip = connections[c]
              => \E c2 \in DOMAIN connections' : connections'[c2] = connections[c]]_vars

\* What the end of a connection does: the router map loses the connection id,
\* the session registry is left as it was
C17_OnlyRouterMapCleaned ==
    [][connections' # connections /\ connection_id' = connection_id
          => /\ DOMAIN connections' \subseteq DOMAIN connections
             /\ Cardinality(DOMAIN connections') = Cardinality(DOMAIN connections) - 1
             /\ sessions' = sessions]_vars

\* every connection of the camera has ended and its session is still there
C17_SessionOutlivesConnection ==
    /\ connections = <<>> /\ connection_id > 0
    /\ turn.msg = "Register" /\ turn.registered
    /\ turn.dev # <<>> /\ turn.dev[1] \in DOMAIN sessions

(***************************************************************************)
(* SpecPool: the ingress queue, WorkerPool::run and the tasks it spawns,    *)
(* one step per await of a task: the concurrency permit, the write lock on *)
(* camera_sessions, the arm of handle_message_with_addr, the reply, the    *)
(* release of the permit.                                                  *)
(***************************************************************************)
IngressCapacity == 1     \* ServerConfig.ingress_capacity
Concurrency     == 2     \* ServerConfig.max_inflight
MaxPushed       == 3     \* frames the dispatchers send in one behaviour

PoolDeviceIds == {"cam01", "cam02"}

\* a keepalive, a registration per device id, and bytes that are no message
PoolBodies ==
    {[bytes |-> Repeat(0, 20), uid |-> ""], [bytes |-> <<0>>, uid |-> ""]}
    \cup {[bytes |-> ControlFrame(0, RegisterText, 0), uid |-> d] : d \in PoolDeviceIds}

mpsc_send_Unbounded(queue) == TRUE

\* mpsc::Sender::send(frame).await completes when the channel has room
mpsc_send_ready(queue) == Len(queue) < IngressCapacity

\* mpsc::Sender::send: the frame is the last of the channel
mpsc_send(queue, frame) == Append(queue, frame)

\* the frame of a task that has ended
NoFrame == [conn_id |-> <<>>, ip |-> 0, bytes |-> <<>>, uid |-> ""]

Task_new(frame) ==
    [frame |-> frame, pc |-> "acquire", msg |-> "", changed |-> FALSE,
     result |-> "", response |-> Response("", 0)]

InitPool ==
    /\ sessions = <<>> /\ connections = <<>> /\ connection_id = 0
    /\ inflight = {} /\ turn = NoTurn /\ script = <<>>
    /\ opened = {} /\ sessions_lock = "free"
    /\ ingress = <<>> /\ tasks = <<>> /\ permits = Concurrency /\ pushed = 0
    /\ ListenerIdle
    /\ CodecIdle /\ BufferIdle /\ RouterIdle

poolOthers == <<connections, connection_id, inflight, turn, script, opened,
                listenerVars, codecVars, bufferVars, routerVars>>

\* net/tcp.rs handle_tcp_connection, read arm Ok(n): ingress_tx.send(frame).await
handle_tcp_connection_send ==
    \E conn_id \in DOMAIN connections, body \in PoolBodies :
        /\ pushed < MaxPushed
        /\ mpsc_send_ready(ingress)
        /\ ingress' = mpsc_send(ingress,
                                RawFrame(Some(conn_id), connections[conn_id], body))
        /\ pushed' = pushed + 1
        /\ UNCHANGED <<sessions, sessions_lock, tasks, permits, poolOthers>>

\* net/udp.rs recv_loop: ingress_tx.send(frame).await
recv_loop_send ==
    \E ip \in PipelineIps, body \in PoolBodies :
        /\ pushed < MaxPushed
        /\ mpsc_send_ready(ingress)
        /\ ingress' = mpsc_send(ingress, RawFrame(<<>>, ip, body))
        /\ pushed' = pushed + 1
        /\ UNCHANGED <<sessions, sessions_lock, tasks, permits, poolOthers>>

\* pipeline.rs WorkerPool::run: ingress_rx.recv().await, then tokio::spawn
WorkerPool_run ==
    /\ ingress # <<>>
    /\ tasks' = Append(tasks, Task_new(Head(ingress)))
    /\ ingress' = Tail(ingress)
    /\ UNCHANGED <<sessions, sessions_lock, permits, pushed, poolOthers>>

\* the spawned task: concurrency.acquire().await
acquire_permit ==
    \E t \in DOMAIN tasks :
        /\ tasks[t].pc = "acquire"
        /\ permits > 0
        /\ permits' = permits - 1
        /\ tasks' = [tasks EXCEPT ![t].pc = "parse"]
        /\ UNCHANGED <<sessions, sessions_lock, ingress, pushed, poolOthers>>

\* process_frame up to the arm's camera_sessions.write().await: parse_message,
\* and the arms that take no lock (Message::Unknown) run to their Response
enter_handler ==
    \E t \in DOMAIN tasks :
        LET message == parse_message(tasks[t].frame.bytes) IN
        /\ tasks[t].pc = "parse"
        /\ IF takes_write_lock(message)
           THEN /\ RwLock_write_ready(sessions_lock)
                /\ sessions_lock' = "write"
                /\ tasks' = [tasks EXCEPT ![t].pc = "handler",
                                          ![t].msg = message.kind]
           ELSE /\ sessions_lock' = sessions_lock
                /\ tasks' = [tasks EXCEPT
                       ![t].pc = "reply", ![t].msg = message.kind,
                       ![t].response =
                           handle_message_with_addr(message, tasks[t].frame, sessions,
                                                    connections, <<>>).response]
        /\ UNCHANGED <<sessions, ingress, permits, pushed, poolOthers>>

\* the arm of handle_message_with_addr under the write guard, to the end of
\* the guard's block; the Keepalive arm that finds no session stays inside
run_handler ==
    \E t \in DOMAIN tasks :
    \E found \in find_session_by_ip(sessions, tasks[t].frame.ip) :
        LET message == parse_message(tasks[t].frame.bytes)
            h == handle_message_with_addr(message, tasks[t].frame, sessions,
                                          connections, found)
        IN  /\ tasks[t].pc = "handler"
            /\ sessions' = h.sessions
            /\ IF h.response = ReadUnderWriteGuard
               THEN /\ sessions_lock' = sessions_lock
                    /\ tasks' = [tasks EXCEPT ![t].pc = "awaiting_read"]
               ELSE /\ sessions_lock' = "free"
                    /\ tasks' = [tasks EXCEPT ![t].pc = "reply",
                                              ![t].changed = (h.sessions # sessions),
                                              ![t].response = h.response]
            /\ UNCHANGED <<ingress, permits, pushed, poolOthers>>

\* process_frame, "Send response": send_to_conn(..).await? on a TCP frame,
\* udp_sender.send_to(..).await? on a datagram, whose bind or send may fail
send_response ==
    \E t \in DOMAIN tasks, sent \in BOOLEAN :
        LET response_bytes == serialize_response(tasks[t].response) IN
        /\ tasks[t].pc = "reply"
        /\ (response_bytes = <<>> \/ tasks[t].frame.conn_id # <<>>) => sent
        /\ tasks' = [tasks EXCEPT ![t].pc = "release",
                                  ![t].response = Response("", 0),
                                  ![t].result = IF sent THEN "ok" ELSE "error"]
        /\ UNCHANGED <<sessions, sessions_lock, ingress, permits, pushed, poolOthers>>

\* the spawned task: the error is logged, drop(permit)
drop_permit ==
    \E t \in DOMAIN tasks :
        /\ tasks[t].pc = "release"
        /\ permits' = permits + 1
        /\ tasks' = [tasks EXCEPT ![t] = [Task_new(NoFrame) EXCEPT !.pc = "done"]]
        /\ UNCHANGED <<sessions, sessions_lock, ingress, pushed, poolOthers>>

NextPool ==
    \/ accept_loop
    \/ handle_tcp_connection_send
    \/ recv_loop_send
    \/ WorkerPool_run
    \/ acquire_permit
    \/ enter_handler
    \/ run_handler
    \/ send_response
    \/ drop_permit

SpecPool == InitPool /\ [][NextPool]_vars

\* WorkerPool::run is one task that does nothing but await recv and spawn:
\* the runtime keeps scheduling it while a frame is in the channel
SpecPoolFair == InitPool /\ [][NextPool]_vars /\ WF_vars(WorkerPool_run)

\* C16: in every reachable state of the pipeline's session registry there is
\* at most one session per source ip, so a lookup by source ip always selects
\* the same single session, also when two registrations with different device
\* ids arrive from one ip.
C16_OneSessionPerIp ==
    /\ \A d1, d2 \in DOMAIN sessions :
          sessions[d1].ip = sessions[d2].ip => d1 = d2
    /\ \A ip \in PipelineIps : Cardinality(find_session_by_ip(sessions, ip)) = 1

\* The registry has one session per device id, whatever the ips
C16_OneSessionPerDevice ==
    [][\A t \in DOMAIN tasks :
          (tasks[t].pc = "handler" /\ tasks'[t].pc = "reply"
           /\ tasks[t].msg = "Register")
          => /\ tasks[t].frame.uid \in DOMAIN sessions'
             /\ \A d \in DOMAIN sessions : d \in DOMAIN sessions']_vars

\* two devices registered from one ip: the lookup by ip has two outcomes
C16_TwoSessionsOneIp ==
    /\ DOMAIN sessions = PoolDeviceIds
    /\ \A d \in DOMAIN sessions : sessions[d].ip = 1
    /\ find_session_by_ip(sessions, 1) = {Some("cam01"), Some("cam02")}

InGuardBlock(t) == tasks[t].pc \in {"handler", "awaiting_read"}

\* C18: for any interleaving of worker tasks, no two frames belonging to the
\* same session are ever executing a handshake-state or session mutation in
\* handle_message_with_addr at the same time.
C18_OneMutationAtATime ==
    \A t1, t2 \in DOMAIN tasks :
        (InGuardBlock(t1) /\ InGuardBlock(t2)) => t1 = t2

\* one task is in the Register arm under the write guard while another task,
\* holding a permit and a registration of the same device from the same ip,
\* waits for the lock
C18_SecondFrameWaits ==
    \E t1, t2 \in DOMAIN tasks :
        /\ tasks[t1].pc = "handler" /\ tasks[t2].pc = "parse"
        /\ takes_write_lock(parse_message(tasks[t2].frame.bytes))
        /\ tasks[t1].frame.ip = tasks[t2].frame.ip
        /\ tasks[t1].frame.uid = tasks[t2].frame.uid
        /\ tasks[t1].frame.uid \in PoolDeviceIds
        /\ permits = Concurrency - 2
        /\ sessions_lock = "write"

\* C19: a frame read by a TCP or UDP dispatcher is never discarded because the
\* ingress queue is full: the dispatcher waits for space, the queue never
\* holds more than its capacity, and while the worker pool is running every
\* pushed frame is eventually handed to a worker.
C19_NoFrameDiscarded ==
    /\ [](Len(ingress) <= IngressCapacity)
    /\ [](pushed = Len(ingress) + Len(tasks))
    /\ \A n \in 1..MaxPushed : (pushed >= n) ~> (Len(tasks) >= n)

\* the queue is full, so that the next send waits, and a frame pushed before
\* has been handed to a worker
C19_QueueFull ==
    /\ Len(ingress) = IngressCapacity
    /\ ~mpsc_send_ready(ingress)
    /\ Len(tasks) >= 1
    /\ pushed = Len(ingress) + Len(tasks)

HoldsPermit(t) ==
    tasks[t].pc \in {"parse", "handler", "awaiting_read", "reply", "release"}

\* C20: a frame that fails to decode or whose handling returns an error never
\* stops the pool: its concurrency permit is released and no session state is
\* changed by it.
C20_FailedFrameHarmless ==
    /\ \A t \in DOMAIN tasks :
          (tasks[t].result = "error" \/ tasks[t].msg = "Unknown")
          => /\ ~tasks[t].changed
             /\ tasks[t].pc \in {"reply", "release", "done"}
    /\ permits + Cardinality({t \in DOMAIN tasks : HoldsPermit(t)}) = Concurrency

\* The permits are accounted for, and bytes that are no message change nothing
C20_PermitsAndUndecoded ==
    /\ permits + Cardinality({t \in DOMAIN tasks : HoldsPermit(t)}) = Concurrency
    /\ \A t \in DOMAIN tasks : tasks[t].msg = "Unknown" => ~tasks[t].changed

\* process_frame returned an error for a datagram that had created a session
C20_ErrorAfterChange ==
    \E t \in DOMAIN tasks :
        /\ tasks[t].pc = "release" /\ tasks[t].result = "error"
        /\ tasks[t].msg = "Register" /\ tasks[t].changed

\* a later frame waits for the write guard that a keepalive arm never drops
C20_LaterFrameStuck ==
    \E t1, t2 \in DOMAIN tasks :
        /\ t1 < t2
        /\ tasks[t1].pc = "awaiting_read" /\ tasks[t2].pc = "parse"
        /\ takes_write_lock(parse_message(tasks[t2].frame.bytes))
        /\ ingress = <<>> /\ pushed = MaxPushed


(***************************************************************************)
(* SpecControl: the control messages of the CameraManager server.          *)
(* TcpRouter runs one handle_connection task per connection, UdpRouter one *)
(* receive loop that awaits process_message inline; both work on the one   *)
(* Arc<RwLock<CameraManager>>.  tokio's RwLock queues its waiters: a task  *)
(* that awaits write() while it holds a read guard waits for itself, and   *)
(* every later read() or write() queues behind it.                         *)
(***************************************************************************)
MaxCode51 == 4

ControlIps  == {1, 2}
\* rand::thread_rng().gen_range(32000..65000): the two ends of the range
RandomPorts == {32000, 64999}
\* config.udp_stream_port_2, a configured port
udp_stream_port_2 == 6124

\* the JSON texts a camera sends over TCP
ControlTexts ==
    {j \in JsonTexts : /\ j.typed /\ ~j.uid
                       /\ j.code \in {100, 12, 51, 301, 999}
                       /\ j.content \in {Absent, 4, 3}}

\* the port written into the code-21 reply, as if the bind always succeeded
code21_port_AlwaysRandom(bind_ok, random_port) == random_port

\* router/udp.rs handle_udp_probe: the "port" of the code-21 reply
code21_port(bind_ok, random_port) ==
    IF bind_ok THEN random_port ELSE udp_stream_port_2

Code21(port) == [kind |-> "json", code |-> 21, content |-> Absent, port |-> port]
TcpJson(code, content) == [kind |-> "json", code |-> code, content |-> content, port |-> 0]

\* ProtocolState of a camera, "" when the manager has no such camera
camera_state(cams, ip) == IF ip \in DOMAIN cams THEN cams[ip].state ELSE ""

ControlTurn(handler, ip, post, tcp, udp, returned, bind_ok, random_port) ==
    [handler |-> handler, ip |-> ip,
     pre |-> camera_state(cameras, ip), post |-> camera_state(post, ip),
     pre_probe  |-> IF ip \in DOMAIN cameras THEN cameras[ip].probe_state
                    ELSE ProbeState_NotStarted,
     tcp |-> tcp, udp |-> udp, returned |-> returned,
     bind_ok |-> bind_ok, random_port |-> random_port]

NoControlTurn ==
    [handler |-> "", ip |-> 0, pre |-> "", post |-> "",
     pre_probe |-> ProbeState_NotStarted,
     tcp |-> <<>>, udp |-> <<>>, returned |-> TRUE,
     bind_ok |-> FALSE, random_port |-> 0]

controlOthers == <<codecVars, bufferVars, pipelineVars,
                   sent605, received_since, last_event, socketVars>>

InitControl ==
    /\ cameras = <<>>
    /\ sent605 = <<>> /\ received_since = <<>> /\ last_event = None
    /\ manager_lock = "free"
    /\ tcp_task = [ip \in ControlIps |-> "none"]
    /\ udp_task = "running"
    /\ control_turn = NoControlTurn
    /\ code51_seen = [ip \in ControlIps |-> 0]
    /\ SocketIdle
    /\ CodecIdle /\ BufferIdle /\ PipelineIdle

\* a task reaches camera_manager.read()/write() that it can never get
TaskBlocks(handler, ip) ==
    /\ control_turn' = ControlTurn(handler, ip, cameras, <<>>, <<>>, FALSE, FALSE, 0)
    /\ UNCHANGED <<cameras, manager_lock>>

\* router/tcp.rs handle_connection, up to the read loop
TcpRouter_handle_connection ==
    \E ip \in ControlIps :
        /\ tcp_task[ip] = "none"
        /\ IF RwLock_write_ready(manager_lock)
           THEN LET cams == get_or_create_camera(cameras, ip) IN
                /\ cameras' = [cams EXCEPT ![ip].tcp_conn = TRUE,
                                           ![ip].state = "Configuring"]
                /\ control_turn' = ControlTurn("handle_connection", ip, cameras',
                                               <<>>, <<>>, TRUE, FALSE, 0)
                /\ tcp_task' = [tcp_task EXCEPT ![ip] = "running"]
                /\ UNCHANGED manager_lock
           ELSE /\ TaskBlocks("handle_connection", ip)
                /\ tcp_task' = [tcp_task EXCEPT ![ip] = "blocked"]
        /\ UNCHANGED <<udp_task, code51_seen, controlOthers>>

\* router/tcp.rs handle_connection: read returns Ok(0) or Err, then the
\* clean-up block
TcpRouter_connection_closed ==
    \E ip \in ControlIps :
        /\ tcp_task[ip] = "running"
        /\ IF RwLock_write_ready(manager_lock)
           THEN /\ cameras' = IF ip \in DOMAIN cameras
                              THEN [cameras EXCEPT ![ip].tcp_conn = FALSE,
                                                   ![ip].state = "Disconnected"]
                              ELSE cameras
                /\ control_turn' = ControlTurn("connection_closed", ip, cameras',
                                               <<>>, <<>>, TRUE, FALSE, 0)
                /\ tcp_task' = [tcp_task EXCEPT ![ip] = "none"]
                /\ UNCHANGED manager_lock
           ELSE /\ TaskBlocks("connection_closed", ip)
                /\ tcp_task' = [tcp_task EXCEPT ![ip] = "blocked"]
        /\ UNCHANGED <<udp_task, code51_seen, controlOthers>>

\* router/tcp.rs handle_registration
TcpRouter_handle_registration(cams, ip) ==
    LET created == get_or_create_camera(cams, ip) IN
    [cameras |-> [created EXCEPT ![ip].state = "Idle"],
     tcp     |-> IF created[ip].tcp_conn THEN <<TcpJson(101, Absent)>> ELSE <<>>,
     returned |-> TRUE]

\* router/tcp.rs handle_nat_probe_response
TcpRouter_handle_nat_probe_response(cams, ip) ==
    LET tcp_conn == ip \in DOMAIN cams /\ cams[ip].tcp_conn
        created  == get_or_create_camera(cams, ip) IN
    [cameras |-> [created EXCEPT ![ip].state = "Streaming"],
     tcp     |-> IF tcp_conn
                 THEN <<TcpJson(53, Absent), TcpJson(301, 298), TcpJson(301, 4)>>
                 ELSE <<>>,
     returned |-> TRUE]

\* router/tcp.rs handle_device_info_request: with a stored tcp_conn the
\* code-50 reply is written and then camera_manager.write() is awaited
\* inside the scope of the read guard
TcpRouter_handle_device_info_request(cams, ip) ==
    LET tcp_conn == ip \in DOMAIN cams /\ cams[ip].tcp_conn IN
    [cameras |-> cams,
     tcp     |-> IF tcp_conn THEN <<TcpJson(50, Absent)>> ELSE <<>>,
     returned |-> ~tcp_conn]

\* router/tcp.rs send_streaming_command / send_stop_streaming_command
TcpRouter_send_forward_command(cams, ip, content) ==
    LET tcp_conn == ip \in DOMAIN cams /\ cams[ip].tcp_conn IN
    [cameras |-> cams,
     tcp     |-> IF tcp_conn THEN <<TcpJson(301, content)>> ELSE <<>>,
     returned |-> TRUE]

TcpRouter_run_handler(handler, cams, ip) ==
    CASE handler = "handle_registration" -> TcpRouter_handle_registration(cams, ip)
      [] handler = "handle_nat_probe_response" ->
            TcpRouter_handle_nat_probe_response(cams, ip)
      [] handler = "handle_device_info_request" ->
            TcpRouter_handle_device_info_request(cams, ip)
      [] handler = "send_streaming_command" ->
            TcpRouter_send_forward_command(cams, ip, 3)
      [] handler = "send_stop_streaming_command" ->
            TcpRouter_send_forward_command(cams, ip, 0)
      [] OTHER -> [cameras |-> cams, tcp |-> <<>>, returned |-> TRUE]

\* router/tcp.rs handle_connection: one pass of the read loop, a JSON
\* message of the camera through process_message
TcpRouter_read_message ==
    \E ip \in ControlIps, j \in ControlTexts :
        LET handler == TcpRouter_json_dispatch(j).handler
            h == TcpRouter_run_handler(handler, cameras, ip) IN
        /\ tcp_task[ip] = "running"
        /\ j.code = 51 => code51_seen[ip] < MaxCode51
        /\ code51_seen' = [code51_seen EXCEPT ![ip] = @ + (IF j.code = 51 THEN 1 ELSE 0)]
        /\ IF handler = "none"
           THEN /\ control_turn' = ControlTurn(handler, ip, cameras, <<>>, <<>>,
                                               TRUE, FALSE, 0)
                /\ UNCHANGED <<cameras, manager_lock, tcp_task>>
           ELSE IF RwLock_write_ready(manager_lock)
           THEN /\ cameras' = h.cameras
                /\ control_turn' = ControlTurn(handler, ip, cameras', h.tcp, <<>>,
                                               h.returned, FALSE, 0)
                /\ manager_lock' = IF h.returned THEN manager_lock ELSE "read"
                /\ tcp_task' = IF h.returned THEN tcp_task
                               ELSE [tcp_task EXCEPT ![ip] = "blocked"]
           ELSE /\ TaskBlocks(handler, ip)
                /\ tcp_task' = [tcp_task EXCEPT ![ip] = "blocked"]
        /\ UNCHANGED <<udp_task, controlOthers>>

\* router/udp.rs process_message, cmd 0: handle_udp_probe
UdpRouter_handle_udp_probe ==
    \E ip \in ControlIps, bind_ok \in BOOLEAN, random_port \in RandomPorts :
        /\ udp_task = "running"
        /\ IF bind_ok /\ ~RwLock_write_ready(manager_lock)
           THEN /\ control_turn' = ControlTurn("handle_udp_probe", ip, cameras,
                                               <<>>, <<>>, FALSE, bind_ok, random_port)
                /\ udp_task' = "blocked"
                /\ UNCHANGED cameras
           ELSE /\ cameras' =
                     IF bind_ok
                     THEN [get_or_create_camera(cameras, ip)
                              EXCEPT ![ip].random_video_port = Some(random_port)]
                     ELSE cameras
                /\ control_turn' =
                     ControlTurn("handle_udp_probe", ip, cameras', <<>>,
                                 <<Code21(code21_port(bind_ok, random_port))>>,
                                 TRUE, bind_ok, random_port)
                /\ UNCHANGED udp_task
        /\ UNCHANGED <<manager_lock, tcp_task, code51_seen, controlOthers>>

\* enum ProbeState after one more code 51
ProbeState_next(probe_state) ==
    CASE probe_state.tag = "NotStarted" -> ProbeState_InProgress(1)
      [] probe_state.tag = "InProgress" ->
            IF probe_state.count + 1 >= 3 THEN ProbeState_Completed
            ELSE ProbeState_InProgress(probe_state.count + 1)
      [] OTHER -> ProbeState_Completed

\* router/udp.rs process_message, cmd 51: handle_code51_response
UdpRouter_handle_code51_response ==
    \E ip \in ControlIps :
        /\ udp_task = "running"
        /\ code51_seen[ip] < MaxCode51
        /\ code51_seen' = [code51_seen EXCEPT ![ip] = @ + 1]
        /\ IF RwLock_write_ready(manager_lock)
           THEN LET cams == get_or_create_camera(cameras, ip) IN
                /\ cameras' = [cams EXCEPT
                                 ![ip].probe_state = ProbeState_next(cams[ip].probe_state)]
                /\ control_turn' = ControlTurn("handle_code51_response", ip, cameras',
                                               <<>>, <<TcpJson(50, Absent)>>,
                                               TRUE, FALSE, 0)
                /\ UNCHANGED udp_task
           ELSE /\ control_turn' = ControlTurn("handle_code51_response", ip, cameras,
                                               <<>>, <<>>, FALSE, FALSE, 0)
                /\ udp_task' = "blocked"
                /\ UNCHANGED cameras
        /\ UNCHANGED <<manager_lock, tcp_task, controlOthers>>

NextControl ==
    \/ TcpRouter_handle_connection
    \/ TcpRouter_connection_closed
    \/ TcpRouter_read_message
    \/ UdpRouter_handle_udp_probe
    \/ UdpRouter_handle_code51_response

SpecControl == InitControl /\ [][NextControl]_vars

ControlTypeOK ==
    /\ manager_lock \in {"free", "read"}
    /\ udp_task \in {"running", "blocked"}
    /\ \A ip \in ControlIps : tcp_task[ip] \in {"none", "running", "blocked"}


\* C21: a code-20 UDP probe received while the session is in any handshake
\* state other than UdpProbed gets no code-21 reply and leaves the state
\* unchanged; here for UdpRouter::handle_udp_probe, whose cameras are never in
\* such a state.
C21_ProbeOutsideUdpProbedIgnored ==
    (control_turn.handler = "handle_udp_probe" /\ control_turn.pre # "UdpProbed")
    => /\ \A i \in 1..Len(control_turn.udp) : control_turn.udp[i].code # 21
       /\ control_turn.post = control_turn.pre

\* the pipeline's UdpProbeRequest arm does ignore the probe outside
\* WaitingForUdpProbe
C21_PipelineProbeGuarded ==
    (turn.msg = "UdpProbeRequest"
       /\ turn.pre.streaming_protocol_state # "WaitingForUdpProbe")
    => /\ \A i \in 1..Len(turn.udp_out) : turn.udp_out[i].msg.code # 21
       /\ turn.post.streaming_protocol_state = turn.pre.streaming_protocol_state

\* UdpRouter::handle_udp_probe answers a probe of a camera that only opened
\* its TCP connection
C21_ReplyWhileConfiguring ==
    /\ control_turn.handler = "handle_udp_probe"
    /\ control_turn.pre = "Configuring"
    /\ \E i \in 1..Len(control_turn.udp) : control_turn.udp[i].code = 21


\* the codes that parse_message turns into a message of the state machine
HandledCodes == {100, 11, 12, 20, 51, 999}

\* C22: a control message whose JSON code is not one the state machine
\* handles causes no message to be sent back to the camera and no change to
\* any session.
C22_UnhandledCodeSilent ==
    (turn.msg = "Unknown" /\ turn.code \notin HandledCodes)
    => /\ turn.tcp_out = <<>> /\ turn.udp_out = <<>>
       /\ turn.post = turn.pre

\* the half that holds: the Unknown arm changes no session
C22_UnknownChangesNoSession ==
    [][(turn'.msg = "Unknown" /\ inflight' # inflight) => sessions' = sessions]_vars

\* a code-7 message read from a TCP connection is answered with
\* {"code":7,"error":...} on that connection
C22_ErrorReplySent ==
    /\ turn.msg = "Unknown" /\ turn.code = 7
    /\ turn.conn_id # <<>>
    /\ Len(turn.tcp_out) = 1
    /\ turn.tcp_out[1].msg = JsonMessage(7, Absent)


\* C23: when a cmd=1, msg_flag=252 packet arrives for a camera whose
\* first_retransmission_sent is true and whose bucket is non-empty, exactly
\* one CMD=605 message with the bucket's ids is sent and the bucket is
\* cleared.
C23_FlushSendsBucket ==
    [][\A ip \in CameraIps :
          (last_event'.flushed /\ last_event'.packages # <<>>)
          => /\ Len(sent605'[ip]) = Len(sent605[ip]) + 1
             /\ sent605'[ip][Len(sent605'[ip])].ids = last_event'.packages
             /\ cameras'[ip].retransmission_bucket = <<>>]_vars

\* a flush took ids out of the bucket and no datagram left the router
C23_BucketClearedUnsent ==
    /\ last_event.flushed /\ last_event.packages # <<>>
    /\ \A ip \in CameraIps : sent605[ip] = <<>>
    /\ \A ip \in DOMAIN cameras : cameras[ip].retransmission_bucket = <<>>


\* C24: a code-12 received in state NatProbeSent moves the session to
\* UdpProbed and emits no message; a code-12 in any state other than
\* NatProbeSent and WaitingForFinalNat emits nothing and leaves the state
\* unchanged; here for TcpRouter::handle_nat_probe_response.
C24_Code12ByState ==
    (control_turn.handler = "handle_nat_probe_response" /\ control_turn.returned)
    => /\ control_turn.pre = "NatProbeSent"
            => control_turn.post = "UdpProbed" /\ control_turn.tcp = <<>>
       /\ control_turn.pre \notin {"NatProbeSent", "WaitingForFinalNat"}
            => control_turn.post = control_turn.pre /\ control_turn.tcp = <<>>

\* the pipeline's NatProbeResponse arm follows the state
C24_PipelineCode12ByState ==
    (turn.msg = "NatProbeResponse" /\ turn.returned)
    => /\ turn.pre.streaming_protocol_state = "WaitingForNatResponse"
            => /\ turn.post.streaming_protocol_state = "WaitingForUdpProbe"
               /\ turn.tcp_out = <<>> /\ turn.udp_out = <<>>
       /\ turn.pre.streaming_protocol_state
              \notin {"WaitingForNatResponse", "WaitingForFinalNatResponse"}
            => /\ turn.post = turn.pre
               /\ turn.tcp_out = <<>> /\ turn.udp_out = <<>>
       /\ turn.tcp_out # <<>>
            => turn.pre.streaming_protocol_state = "WaitingForFinalNatResponse"

\* TcpRouter answers the first code-12 of a registered, idle camera with
\* code 53, 301/298 and 301/4 and sets it to Streaming
C24_IdleCode12Streams ==
    /\ control_turn.handler = "handle_nat_probe_response"
    /\ control_turn.pre = "Idle" /\ control_turn.post = "Streaming"
    /\ control_turn.tcp = <<TcpJson(53, Absent), TcpJson(301, 298), TcpJson(301, 4)>>


\* C25: the stream-start message (code 301 with content.code 3) is sent to a
\* camera only after the camera's echo of the 301 message with content.code 4
\* has been received; it is never sent before that echo.
C25_StartOnlyAfterEcho ==
    (\E i \in 1..Len(turn.tcp_out) : turn.tcp_out[i].msg = JsonMessage(301, 3))
    => turn.echo_received

\* TcpRouter sends 301/3 from send_streaming_command only, which runs on the
\* echo of 301/4
C25_RouterStartOnEcho ==
    (\E i \in 1..Len(control_turn.tcp) : control_turn.tcp[i] = TcpJson(301, 3))
    => control_turn.handler = "send_streaming_command"

\* the pipeline writes 301/4 and 301/3 one after the other in the turn of the
\* final code-12, with no echo received by then
C25_StartWithBaseInfo ==
    /\ turn.msg = "NatProbeResponse"
    /\ ~turn.echo_received
    /\ Msgs(turn.tcp_out) = <<JsonMessage(301, 298), JsonMessage(301, 4),
                              JsonMessage(301, 3)>>


\* C26: the port carried in every code-21 reply sent by handle_udp_probe is
\* the randomly chosen port in [32000, 65000) when binding it succeeded, and
\* the configured fallback stream port when the bind failed; a bind failure
\* never suppresses the reply.
C26_ReplyPort ==
    control_turn.handler = "handle_udp_probe"
    => /\ \A i \in 1..Len(control_turn.udp) :
             control_turn.udp[i].code = 21
             => IF control_turn.bind_ok
                THEN /\ control_turn.udp[i].port = control_turn.random_port
                     /\ control_turn.udp[i].port >= 32000
                     /\ control_turn.udp[i].port < 65000
                ELSE control_turn.udp[i].port = udp_stream_port_2
       /\ ~control_turn.bind_ok
             => \E i \in 1..Len(control_turn.udp) : control_turn.udp[i].code = 21

\* a probe whose bind failed, answered with the fallback port, while the
\* camera manager can no longer be locked
C26_FallbackReply ==
    /\ control_turn.handler = "handle_udp_probe"
    /\ ~control_turn.bind_ok
    /\ control_turn.udp = <<Code21(udp_stream_port_2)>>
    /\ manager_lock = "read"


Code50Replies(t) ==
    {i \in 1..Len(t.tcp) : t.tcp[i].code = 50}
    \cup {Len(t.tcp) + i : i \in {k \in 1..Len(t.udp) : t.udp[k].code = 50}}

\* C27: each code-51 message received from a camera gets exactly one code-50
\* reply and increments the camera's probe counter; the probe exchange is
\* marked complete on the third code-51 and not before.
C27_Code51Exchange ==
    /\ control_turn.handler \in {"handle_code51_response", "handle_device_info_request"}
          => Cardinality(Code50Replies(control_turn)) = 1
    /\ \A ip \in ControlIps :
          code51_seen[ip] > 0
          => /\ ip \in DOMAIN cameras
             /\ cameras[ip].probe_state =
                   IF code51_seen[ip] >= 3 THEN ProbeState_Completed
                   ELSE ProbeState_InProgress(code51_seen[ip])

\* the parts that hold: UdpRouter::handle_code51_response, when it gets the
\* manager's lock, replies once and counts
C27_UdpCode51Counted ==
    (control_turn.handler = "handle_code51_response" /\ control_turn.returned)
    => /\ control_turn.udp = <<TcpJson(50, Absent)>>
       /\ cameras[control_turn.ip].probe_state = ProbeState_next(control_turn.pre_probe)

\* and a completed exchange stays completed
C27_CompleteIsFinal ==
    [][\A ip \in DOMAIN cameras :
          cameras[ip].probe_state = ProbeState_Completed
          => cameras'[ip].probe_state = ProbeState_Completed]_vars

\* a code 51 read from the TCP connection: code 50 is written, no counter
\* moves, and the connection's task waits for a lock it holds itself
C27_TcpCode51Uncounted ==
    /\ control_turn.handler = "handle_device_info_request"
    /\ control_turn.tcp = <<TcpJson(50, Absent)>>
    /\ code51_seen[control_turn.ip] = 1
    /\ cameras[control_turn.ip].probe_state = ProbeState_NotStarted
    /\ ~control_turn.returned /\ manager_lock = "read"

\* after that, a code 51 datagram gets no reply at all
C27_Code51Unanswered ==
    /\ control_turn.handler = "handle_code51_response"
    /\ control_turn.udp = <<>> /\ udp_task = "blocked"


(***************************************************************************)
(* SpecAssemble: StreamBuffer::add_fragment on one cmd=1 fragment with     *)
(* msg_flag 251 or 252, for every buffer and payload below.  The size      *)
(* hints are below 2^31; the comparison in assemble_frame is the same for  *)
(* every larger u32.                                                       *)
(***************************************************************************)
HintValues ==
    {0, 1, 2, 999999, 1000000, 1000001, 1048575, 1048576, 1048577, 16777216}

\* terminators: bytes of image data, then the 4 bytes of a hint; and
\* payloads shorter than 4 bytes
AssemblePayloads ==
    {data \o to_le_bytes(h, 4) : data \in {<<>>, <<9>>, <<9, 8>>}, h \in HintValues}
    \cup {<<>>, <<1>>, <<1, 2>>, <<1, 2, 3>>}

\* the buffer before: frames already in the ring, and the fragments of the
\* assembly in progress (none: no assembly)
AssembleInputs ==
    [frames    : {<<>>, <<<<5>>>>},
     fragments : {<<>>, <<<<7>>>>, <<<<7>>, <<6>>>>},
     msg_flag  : {251, 252},
     payload   : AssemblePayloads]

RECURSIVE push_fragments(_, _)
push_fragments(sb, fragments) ==
    IF fragments = <<>> THEN sb
    ELSE push_fragments(add_frame_fragment(sb, Head(fragments)), Tail(fragments))

\* the StreamBuffer an input describes
buffer_before(in) ==
    LET ring == [StreamBuffer_new(MaxCap) EXCEPT !.frames = in.frames] IN
    IF in.fragments = <<>> THEN ring
    ELSE push_fragments(start_new_frame(ring, Head(in.fragments)), Tail(in.fragments))

InitAssemble ==
    /\ wire_op = "input" /\ wire_in \in AssembleInputs /\ wire_out = None
    /\ BufferIdle /\ RouterIdle /\ PipelineIdle

\* types.rs StreamBuffer::add_fragment, the arms (1, 251) and (1, 252)
AddFragment ==
    /\ wire_op = "input"
    /\ wire_op' = "add_fragment"
    /\ wire_out' = add_fragment(buffer_before(wire_in), 1, wire_in.msg_flag, 0,
                                wire_in.payload)
    /\ UNCHANGED <<wire_in, bufferVars, routerVars, pipelineVars>>

\* types.rs StreamBuffer::complete_incomplete_frame, called by the periodic
\* sweep on the buffer the fragment was added to
CompleteIncompleteFrame ==
    /\ wire_op = "add_fragment"
    /\ wire_op' = "complete_incomplete_frame"
    /\ wire_out' = complete_incomplete_frame(wire_out.sb)
    /\ UNCHANGED <<wire_in, bufferVars, routerVars, pipelineVars>>

NextAssemble == AddFragment \/ CompleteIncompleteFrame

SpecAssemble == InitAssemble /\ [][NextAssemble]_vars

\* the little-endian value of the last 4 bytes of a payload
Hint(p) ==
    p[Len(p) - 3] + 256 * p[Len(p) - 2] + 65536 * p[Len(p) - 1]
        + 16777216 * p[Len(p)]

Finalized ==
    wire_op = "add_fragment" /\ wire_in.msg_flag = 252 /\ wire_in.fragments # <<>>

\* C28: when a frame is finalized, the last 4 bytes of the terminator
\* fragment are removed from the frame exactly when their little-endian
\* unsigned value h satisfies 0 < h < 1,048,576; for every other h, and for
\* a terminator shorter than 4 bytes, the fragment is kept whole.
C28_HintStrippedBelowOneMiB ==
    Finalized
    => LET p == wire_in.payload
           stripped == Len(p) >= 4 /\ Hint(p) > 0 /\ Hint(p) < 1048576
       IN  wire_out.handed =
              <<Concat(wire_in.fragments)
                   \o (IF stripped THEN SubSeq(p, 1, Len(p) - 4) ELSE p)>>

\* what the code does: the bound is 1,000,000
C28_HintStrippedBelowMillion ==
    Finalized
    => LET p == wire_in.payload
           stripped == Len(p) >= 4 /\ Hint(p) > 0 /\ Hint(p) < 1000000
       IN  wire_out.handed =
              <<Concat(wire_in.fragments)
                   \o (IF stripped THEN SubSeq(p, 1, Len(p) - 4) ELSE p)>>

\* a terminator whose hint is 1,000,000 keeps its 4 size bytes in the frame
C28_MillionKept ==
    /\ Finalized
    /\ wire_in.fragments = <<<<7>>>>
    /\ wire_in.payload = <<9>> \o to_le_bytes(1000000, 4)
    /\ wire_out.handed = <<<<7, 9>> \o to_le_bytes(1000000, 4)>>


(***************************************************************************)
(* SpecSweep: one camera's StreamBuffer, the video handler that feeds it   *)
(* and UdpRouter::periodic_incomplete_frame_task, with a clock.            *)
(* tokio::time::interval completes its first tick at once and the next     *)
(* ones every period; a tick that is due may be served late.               *)
(***************************************************************************)
MaxNow == 1000
SweepPeriodMs == 500

Elapse == {250}
SweepPayloads == {<<1>>}
SweepFlags    == {250, 251, 252}

sweepOthers == <<completed, delivery, codecVars, routerVars, pipelineVars>>

NoSweep ==
    [touched |-> FALSE, age |-> 0, fragments |-> 0, ret |-> FALSE,
     frames_added |-> 0, in_progress_after |-> FALSE]

InitSweep ==
    /\ stream_buffer = StreamBuffer_new(MaxCap)
    /\ completed = <<>> /\ delivery = <<>>
    /\ now = 0 /\ next_tick = 0 /\ assembly_started = <<>>
    /\ last_sweep = NoSweep
    /\ CodecIdle /\ RouterIdle /\ PipelineIdle

\* time passes
SweepElapse ==
    \E d \in Elapse :
        /\ now + d <= MaxNow
        /\ now' = now + d
        /\ UNCHANGED <<stream_buffer, next_tick, assembly_started, last_sweep,
                       sweepOthers>>

\* handle_video_frame: a cmd=1 fragment reaches the buffer
SweepAddFragment ==
    \E msg_flag \in SweepFlags, payload \in SweepPayloads :
        LET r == add_fragment(stream_buffer, 1, msg_flag, 0, payload) IN
        /\ Len(Fragments(r.sb)) < MaxFrags
        /\ stream_buffer' = r.sb
        /\ assembly_started' =
              IF r.sb.current_frame = <<>> THEN <<>>
              ELSE IF msg_flag = 250 THEN Some(now)
              ELSE assembly_started
        /\ UNCHANGED <<now, next_tick, last_sweep, sweepOthers>>

\* periodic_incomplete_frame_task: one pass of the loop.  With the camera's
\* lock taken by a handler, try_write fails and the camera is skipped.
periodic_sweep ==
    \E try_write_ok \in BOOLEAN :
        LET r == complete_incomplete_frame(stream_buffer) IN
        /\ now >= next_tick
        /\ next_tick <= MaxNow
        /\ next_tick' = next_tick + SweepPeriodMs
        /\ IF try_write_ok
           THEN /\ stream_buffer' = r.sb
                /\ assembly_started' = <<>>
                /\ last_sweep' =
                      [touched   |-> stream_buffer.current_frame # <<>>,
                       age       |-> IF assembly_started = <<>> THEN 0
                                     ELSE now - assembly_started[1],
                       fragments |-> Len(Fragments(stream_buffer)),
                       ret       |-> r.ret,
                       frames_added |-> Len(r.handed),
                       in_progress_after |-> r.sb.current_frame # <<>>]
           ELSE /\ last_sweep' = NoSweep
                /\ UNCHANGED <<stream_buffer, assembly_started>>
        /\ UNCHANGED <<now, sweepOthers>>

NextSweep ==
    \/ SweepElapse
    \/ SweepAddFragment
    \/ periodic_sweep

SpecSweep == InitSweep /\ [][NextSweep]_vars

\* C29: the periodic sweep never finalizes or discards an in-progress
\* assembly that is younger than 500 ms; an assembly older than that is
\* finalized into the ring when it has at least 2 fragments and discarded
\* otherwise.
C29_SweepSparesYoung ==
    last_sweep.touched
    => /\ last_sweep.age >= 500
       /\ ~last_sweep.in_progress_after
       /\ last_sweep.frames_added = (IF last_sweep.fragments >= 2 THEN 1 ELSE 0)

\* what the sweep does with any assembly it finds, whatever its age
C29_SweepByFragmentCount ==
    last_sweep.touched
    => /\ ~last_sweep.in_progress_after
       /\ last_sweep.frames_added = (IF last_sweep.fragments >= 2 THEN 1 ELSE 0)

\* an assembly of two fragments that was started in the same millisecond is
\* finalized by the sweep
C29_YoungFinalized ==
    /\ last_sweep.touched /\ last_sweep.age = 0
    /\ last_sweep.fragments = 2 /\ last_sweep.frames_added = 1

\* and one of a single fragment, 250 ms old, is discarded
C29_YoungDiscarded ==
    /\ last_sweep.touched /\ last_sweep.age = 250
    /\ last_sweep.fragments = 1 /\ last_sweep.frames_added = 0
    /\ ~last_sweep.in_progress_after


\* C30: a cmd=1 fragment with msg_flag 251 or 252 that arrives when no
\* assembly is in progress is dropped: the ring buffer is unchanged and there
\* is still no in-progress assembly afterwards.
C30_OrphanFragmentDropped ==
    (wire_op = "add_fragment" /\ wire_in.fragments = <<>>)
    => /\ wire_out.sb.frames = wire_in.frames
       /\ wire_out.sb.current_frame = <<>>
       /\ wire_out.handed = <<>>

\* a terminator with a valid size hint reaches a buffer that holds one frame
\* and no assembly
C30_OrphanTerminator ==
    /\ wire_op = "add_fragment"
    /\ wire_in.fragments = <<>> /\ wire_in.frames = <<<<5>>>>
    /\ wire_in.msg_flag = 252
    /\ wire_in.payload = <<9, 1, 0, 0, 0>>
    /\ wire_out.sb.frames = <<<<5>>>>


(***************************************************************************)
(* SpecListener: net/tcp.rs run_tcp_listener.  It binds every port, builds *)
(* one accept_loop future per port and then awaits the futures one after   *)
(* the other.  A future does nothing until it is awaited, so the loop of a *)
(* port runs only once the loops of all earlier ports have returned, and   *)
(* an accept_loop returns only after an accept error.  A connection        *)
(* attempt to a bound port completes in the kernel and waits in the        *)
(* listener's backlog until accept() takes it.                             *)
(***************************************************************************)
MaxBacklog == 2

\* ServerConfig::default().tcp_ports
tcp_ports == <<6123, 53221, 41234>>
PortIdx   == 1..Len(tcp_ports)

listenerOthers ==
    <<sessions, connections, connection_id, inflight, turn, script, opened,
      sessions_lock, poolVars, codecVars, bufferVars, routerVars>>

InitListener ==
    /\ awaited = 1
    /\ backlog = [p \in PortIdx |-> 0]
    /\ handled = [p \in PortIdx |-> FALSE]
    /\ accept_errors = {}
    /\ sessions = <<>> /\ connections = <<>> /\ connection_id = 0
    /\ inflight = {} /\ turn = None /\ script = <<>>
    /\ opened = {} /\ sessions_lock = None /\ PoolIdle
    /\ CodecIdle /\ BufferIdle /\ RouterIdle

\* run_tcp_listener lines 35-39: the accept_loop of port p is being polled
awaits(p, current) == p = current

\* a camera connects to a port the server has bound
camera_connects ==
    \E p \in PortIdx :
        /\ backlog[p] < MaxBacklog
        /\ backlog' = [backlog EXCEPT ![p] = @ + 1]
        /\ UNCHANGED <<awaited, handled, accept_errors, listenerOthers>>

\* accept_loop of port p: listener.accept() returns Ok, a handler is spawned
accept_loop_ok(p) ==
    /\ awaits(p, awaited)
    /\ p \notin accept_errors
    /\ backlog[p] > 0
    /\ backlog' = [backlog EXCEPT ![p] = @ - 1]
    /\ handled' = [handled EXCEPT ![p] = TRUE]
    /\ UNCHANGED <<awaited, accept_errors, listenerOthers>>

\* accept_loop of port p: listener.accept() returns Err, the loop breaks and
\* run_tcp_listener goes on to the next future
accept_loop_err(p) ==
    /\ awaits(p, awaited)
    /\ p \notin accept_errors
    /\ accept_errors' = accept_errors \cup {p}
    /\ awaited' = IF awaited = p THEN awaited + 1 ELSE awaited
    /\ UNCHANGED <<backlog, handled, listenerOthers>>

NextListener ==
    \/ camera_connects
    \/ \E p \in PortIdx : accept_loop_ok(p)
    \/ \E p \in PortIdx : accept_loop_err(p)

SpecListener == InitListener /\ [][NextListener]_vars

\* an accept_loop that is being polled takes a waiting connection
SpecListenerFair ==
    InitListener /\ [][NextListener]_vars
    /\ \A p \in PortIdx : WF_vars(accept_loop_ok(p))

\* C31: for every configured TCP port, a connection attempt to that port is
\* eventually accepted and given a connection handler, while no accept error
\* has occurred on any port.
C31_EveryPortAccepts ==
    \A p \in PortIdx :
        (backlog[p] > 0) ~> (handled[p] \/ accept_errors # {})

\* the first port of the list is served
C31_FirstPortAccepts ==
    (backlog[1] > 0) ~> (handled[1] \/ accept_errors # {})

\* without an accept error only the first accept_loop ever spawns a handler
C31_OnlyFirstPortHandled ==
    accept_errors = {} => \A p \in PortIdx : handled[p] => p = 1

\* connections wait on the second port while the first port is being served
C31_SecondPortWaits ==
    /\ accept_errors = {} /\ handled[1]
    /\ backlog[2] = MaxBacklog /\ ~handled[2]


\* C32: in every message serialize_response emits with the 20-byte header,
\* the header's length field equals the number of payload bytes that follow
\* the header.
C32_LengthFieldIsPayloadLength ==
    (wire_op = "serialize_response" /\ wire_out # <<>>)
    => from_le_bytes(SubSeq(wire_out[1], 1, 4)) = Len(wire_out[1]) - ProtocolHeader_SIZE

\* the registration and keepalive replies do carry their payload length
C32_RegisterAndKeepaliveLength ==
    (wire_op = "serialize_response"
       /\ wire_in.response.kind \in {"RegisterSuccess", "KeepaliveResponse"})
    => from_le_bytes(SubSeq(wire_out[1], 1, 4)) = Len(wire_out[1]) - ProtocolHeader_SIZE

\* the reply to an unknown code 7: length field 25, 41 bytes of JSON
C32_ErrorReplyLength ==
    /\ wire_op = "serialize_response"
    /\ wire_in.response = [kind |-> "Error", code |-> 7]
    /\ from_le_bytes(SubSeq(wire_out[1], 1, 4)) = 25
    /\ Len(wire_out[1]) - ProtocolHeader_SIZE = 41


\* C33: no reachable state has a task waiting for ever on the camera-manager
\* lock: every TCP handler and every UDP handler that starts finishes, so no
\* task is ever parked on a lock request that cannot be granted.
C33_NoTaskWaitsForever ==
    /\ udp_task # "blocked"
    /\ \A ip \in ControlIps : tcp_task[ip] # "blocked"

\* a parked task stays parked and the read guard is never dropped: the wait
\* TLC finds is a wait for ever
C33_BlockedStaysBlocked ==
    [][/\ \A ip \in ControlIps : tcp_task[ip] = "blocked" => tcp_task'[ip] = "blocked"
       /\ udp_task = "blocked" => udp_task' = "blocked"
       /\ manager_lock = "read" => manager_lock' = "read"]_vars

\* handle_device_info_request running alone: one connection, no other
\* handler in flight, and the connection's task waits for the write guard
\* under its own read guard
C33_DeviceInfoAloneBlocks ==
    /\ control_turn.handler = "handle_device_info_request"
    /\ ~control_turn.returned
    /\ tcp_task[control_turn.ip] = "blocked"
    /\ \A ip \in ControlIps \ {control_turn.ip} : tcp_task[ip] = "none"
    /\ udp_task = "running"
    /\ DOMAIN cameras = {control_turn.ip}


\* a keepalive turn that removed the session's pending command
KeepaliveTookCommand ==
    /\ turn.msg = "Keepalive" /\ turn.dev # <<>>
    /\ turn.pre.pending_command # <<>>
    /\ turn.post.pending_command = <<>>

\* C34: a pending operator command is never lost: whenever a keepalive
\* removes a session's pending command, the code-11 message is sent on a TCP
\* connection in the same step, also when the keepalive arrived over UDP.
C34_TakenCommandIsSent ==
    KeepaliveTookCommand =>
        \E i \in 1..Len(turn.tcp_out) : turn.tcp_out[i].msg = JsonMessage(11, Absent)

\* a keepalive datagram (no connection id) took the command: the only thing
\* sent is the keepalive reply, by UDP, and the handshake state did not move
C34_UdpKeepaliveDropsCommand ==
    /\ KeepaliveTookCommand /\ turn.conn_id = <<>>
    /\ turn.tcp_out = <<>>
    /\ turn.udp_out = <<[ip |-> sessions[turn.dev[1]].ip, msg |-> KeepaliveMessage]>>
    /\ turn.post.streaming_protocol_state = turn.pre.streaming_protocol_state

\* queueing is idempotent: the pending command is absent or "code11"
C34_OneCommandKind ==
    \A d \in DOMAIN sessions : sessions[d].pending_command \in {<<>>, Some("code11")}


\* the task's handle_message_with_addr has started / has completed
HandlerStarted(t)   == tasks[t].pc \in {"handler", "awaiting_read", "reply", "release"}
HandlerCompleted(t) == tasks[t].pc \in {"reply", "release", "done"}

\* tasks are spawned in the order the frames were read: t1 < t2 of one
\* connection means that t1's frame was read first
SameConnection(t1, t2) ==
    /\ tasks[t1].frame.conn_id # <<>>
    /\ tasks[t1].frame.conn_id = tasks[t2].frame.conn_id

\* C35: frames read from one TCP connection are applied in the order they
\* were read: for two frames f1 before f2 of the same connection,
\* handle_message_with_addr for f1 completes before it starts for f2, for
\* every scheduling of the spawned tasks.
C35_FramesInReadOrder ==
    \A t1, t2 \in DOMAIN tasks :
        (t1 < t2 /\ SameConnection(t1, t2) /\ HandlerStarted(t2))
        => HandlerCompleted(t1)

\* the channel itself keeps the order: a frame is spawned before every frame
\* sent after it
C35_SpawnedInReadOrder ==
    [][\A t \in DOMAIN tasks : t \in DOMAIN tasks' /\ tasks'[t].frame \in {tasks[t].frame, NoFrame}]_vars

\* the second frame of a connection is in its handler under the write guard
\* while the first one has not yet got its permit
C35_SecondFrameOvertakes ==
    \E t1, t2 \in DOMAIN tasks :
        /\ t1 < t2 /\ SameConnection(t1, t2)
        /\ tasks[t1].pc = "acquire" /\ tasks[t2].pc = "handler"
        /\ tasks[t1].frame.bytes = ControlFrame(0, RegisterText, 0)
        /\ tasks[t2].frame.bytes = Repeat(0, 20)

\* frames taken from the ingress channel whose task has not ended
Unfinished == {t \in DOMAIN tasks : tasks[t].pc # "done"}

\* C36: the number of frames that have been taken from the ingress queue but
\* whose processing has not finished never exceeds max_inflight.
C36_TakenFramesBounded ==
    Cardinality(Unfinished) <= Concurrency

\* what the semaphore does bound: the tasks past concurrency.acquire()
C36_PermitHoldersBounded ==
    Cardinality({t \in DOMAIN tasks : HoldsPermit(t)}) <= Concurrency

\* max_inflight tasks hold a permit and one more frame has been taken from
\* the channel and moved into a task that waits for a permit
C36_TakenBeyondPermits ==
    /\ permits = 0
    /\ Cardinality({t \in DOMAIN tasks : HoldsPermit(t)}) = Concurrency
    /\ \E t \in DOMAIN tasks : tasks[t].pc = "acquire"
    /\ Cardinality(Unfinished) = Concurrency + 1


\* the ids a step takes out of a camera's retransmission bucket
RemovedIds(ip) ==
    IF ip \in DOMAIN cameras
    THEN Range(cameras[ip].retransmission_bucket)
           \ Range(cameras'[ip].retransmission_bucket)
    ELSE {}

\* the ids of the CMD=605 datagrams a step sends to a camera
SentIds(ip) ==
    UNION {Range(sent605'[ip][i].ids) : i \in (Len(sent605[ip]) + 1)..Len(sent605'[ip])}

\* C37: packet ids are never removed from a retransmission bucket without
\* being transmitted: every id that get_and_clear_retransmission_bucket
\* removes appears in a CMD=605 message sent to the camera in the same step.
C37_RemovedIdsAreSent ==
    [][\A ip \in CameraIps :
          last_event'.flushed
          => (RemovedIds(ip) \cup Range(last_event'.packages)) \subseteq SentIds(ip)]_vars

\* ids leave a bucket only in a flush
C37_RemovedOnlyByFlush ==
    [][\A ip \in CameraIps : RemovedIds(ip) # {} => last_event'.flushed]_vars

\* id 1 was received, a flush took it out of the bucket, and no CMD=605
\* datagram the router has sent names it
C37_IdRemovedNeverSent ==
    /\ last_event.flushed /\ 1 \in Range(last_event.packages)
    /\ \A ip \in DOMAIN cameras : 1 \notin Range(cameras[ip].retransmission_bucket)
    /\ \A ip \in CameraIps : \A i \in 1..Len(sent605[ip]) : 1 \notin Range(sent605[ip][i].ids)
    /\ \E ip \in CameraIps : sent605[ip] # <<>>


(***************************************************************************)
(* SpecStream: the bytes of one or two protocol messages written by the    *)
(* camera on a TCP connection, delivered by stream.read in one chunk or    *)
(* cut in two at any position.  handle_tcp_connection makes one RawFrame   *)
(* of each chunk and process_frame hands its bytes to parse_message.  A    *)
(* JSON body is one token of the stream (see JsonToken), so a cut falls    *)
(* inside a header, between header and body, or between two messages.      *)
(***************************************************************************)
MaxMessages == 2

\* a keepalive (a header with length 0), a registration, a code-12 response
StreamMessages ==
    {Repeat(0, 20), ControlFrame(0, RegisterText, 0), ControlFrame(0, NatResponseText, 0)}

StreamBytes(messages) == Concat(messages)

StreamInputs ==
    {in \in [kind : {"stream"},
             messages : UNION {[1..n -> StreamMessages] : n \in 1..MaxMessages},
             cut : 0..(MaxMessages * 21)] :
        in.cut < Len(StreamBytes(in.messages))}

\* the chunks stream.read returns: the whole stream, or the bytes up to the
\* cut and then the rest
read_chunks(bytes, cut) ==
    IF cut = 0 THEN <<bytes>>
    ELSE <<SubSeq(bytes, 1, cut), SubSeq(bytes, cut + 1, Len(bytes))>>

InitStream ==
    /\ wire_op = "input" /\ wire_in \in StreamInputs /\ wire_out = None
    /\ BufferIdle /\ RouterIdle /\ PipelineIdle

\* net/tcp.rs handle_tcp_connection, read arm, once per chunk, and
\* pipeline.rs process_frame's parse_message on each RawFrame
handle_tcp_connection_chunks ==
    /\ wire_op = "input" /\ wire_in.kind = "stream"
    /\ wire_op' = "parse_message"
    /\ LET chunks == read_chunks(StreamBytes(wire_in.messages), wire_in.cut) IN
       wire_out' = [i \in 1..Len(chunks) |-> parse_message(chunks[i])]
    /\ UNCHANGED <<wire_in, bufferVars, routerVars, pipelineVars>>

NextStream == handle_tcp_connection_chunks

SpecStream == InitStream /\ [][NextStream]_vars

\* the messages the camera sent, each decoded from its own bytes
SentMessages == [i \in 1..Len(wire_in.messages) |-> parse_message(wire_in.messages[i])]

\* the reads end where the messages end
ReadsAligned ==
    \/ Len(wire_in.messages) = 1 /\ wire_in.cut = 0
    \/ Len(wire_in.messages) = 2 /\ wire_in.cut = Len(wire_in.messages[1])

\* C38: every protocol message in a TCP connection's byte stream is decoded
\* exactly once and as the message that was sent, however the stream is
\* split into read chunks.
C38_DecodedAsSent ==
    wire_op = "parse_message" => wire_out = SentMessages

\* with one message per read the decoding is the sent sequence
C38_AlignedReadsDecode ==
    (wire_op = "parse_message" /\ ReadsAligned) => wire_out = SentMessages

\* a registration and a code-12 response delivered in one read: one frame,
\* decoded as Unknown with code 0
C38_TwoMessagesOneRead ==
    /\ wire_op = "parse_message"
    /\ wire_in.messages = <<ControlFrame(0, RegisterText, 0),
                            ControlFrame(0, NatResponseText, 0)>>
    /\ wire_in.cut = 0
    /\ wire_out = <<Unknown(0)>>

\* a registration cut between header and body: the header, whose length
\* field is 1, is taken for a keepalive
C38_HeaderTakenForKeepalive ==
    /\ wire_op = "parse_message"
    /\ wire_in.messages = <<ControlFrame(0, RegisterText, 0)>>
    /\ wire_in.cut = 20
    /\ from_le_bytes(SubSeq(wire_in.messages[1], 1, 4)) = 1
    /\ wire_out[1] = [kind |-> "Keepalive"]


(***************************************************************************)
(* SpecVideoPort: the UDP sockets of the CameraManager server.             *)
(* UdpRouter::start runs the one receive loop of the socket it is given;   *)
(* handle_udp_probe binds a socket on a random port, stores it in the      *)
(* camera and sends the port in the code-21 reply.  Which sockets the      *)
(* server starts a router on is decided by code that is not in the         *)
(* sources: the main port has one, the fallback port may or may not.       *)
(***************************************************************************)
MaxQueued == 1

\* config.udp_port
main_udp_port == 6123
VideoIp       == CHOOSE ip \in CameraIps : TRUE
VideoPkgIds   == {1, 2}

UdpSocket_bind(with_loop) == [recv_loop |-> with_loop, queue |-> <<>>]

videoOthers == <<sent605, received_since, last_event, controlVars,
                 codecVars, bufferVars, pipelineVars>>

InitVideoPort ==
    /\ udp_sockets \in
          {main_udp_port :> UdpSocket_bind(TRUE),
           (main_udp_port :> UdpSocket_bind(TRUE))
              @@ (udp_stream_port_2 :> UdpSocket_bind(TRUE))}
    /\ advertised = {}
    /\ cameras = <<>>
    /\ sent605 = <<>> /\ received_since = <<>> /\ last_event = None
    /\ ControlIdle
    /\ CodecIdle /\ BufferIdle /\ PipelineIdle

\* a socket is closed when the last Arc to it is dropped
drop_socket(sockets, port) ==
    [q \in DOMAIN sockets \ {port} |-> sockets[q]]

\* router/udp.rs handle_udp_probe: bind, store the socket in the camera,
\* send the code-21 reply.  bind fails on a port that is in use.
handle_udp_probe_bind ==
    \E random_port \in RandomPorts, bind_ok \in BOOLEAN :
        LET cams1 == get_or_create_camera(cameras, VideoIp)
            old   == cams1[VideoIp].random_video_port
            kept  == IF old = <<>> THEN udp_sockets
                     ELSE drop_socket(udp_sockets, old[1])
        IN  /\ bind_ok => random_port \notin DOMAIN udp_sockets
            /\ IF bind_ok
               THEN /\ udp_sockets' = kept @@ (random_port :> UdpSocket_bind(FALSE))
                    /\ cameras' = [cams1 EXCEPT
                                     ![VideoIp].random_video_port = Some(random_port)]
               ELSE UNCHANGED <<udp_sockets, cameras>>
            /\ advertised' = advertised \cup {code21_port(bind_ok, random_port)}
            /\ UNCHANGED videoOthers

\* the camera sends a cmd=1 packet to the main port or to a port it was told
\* in a code-21 reply; the datagram waits in the socket bound to that port
camera_sends_video ==
    \E port \in (advertised \cup {main_udp_port}) \cap DOMAIN udp_sockets,
       pkg_id \in VideoPkgIds :
        /\ Len(udp_sockets[port].queue) < MaxQueued
        /\ udp_sockets' = [udp_sockets EXCEPT ![port].queue = Append(@, pkg_id)]
        /\ UNCHANGED <<advertised, cameras, videoOthers>>

\* router/udp.rs UdpRouter::start: socket.recv_from, process_message,
\* handle_video_frame up to the retransmission bucket
UdpRouter_recv_from ==
    \E port \in DOMAIN udp_sockets :
        LET pkg_id == Head(udp_sockets[port].queue)
            cams1  == get_or_create_camera(cameras, VideoIp)
            r      == add_fragment(cams1[VideoIp].stream_buffer, 1, 250, pkg_id,
                                   RouterPayload)
            c1     == [cams1[VideoIp] EXCEPT !.udp_ports = @ \cup CameraPorts,
                                             !.stream_buffer = r.sb]
            c2     == add_to_retransmission_bucket(c1, pkg_id)
        IN  /\ udp_sockets[port].recv_loop
            /\ udp_sockets[port].queue # <<>>
            /\ udp_sockets' = [udp_sockets EXCEPT ![port].queue = Tail(@)]
            /\ cameras' = [cams1 EXCEPT ![VideoIp] = add_received_package(c2, pkg_id)]
            /\ UNCHANGED <<advertised, videoOthers>>

NextVideoPort ==
    \/ handle_udp_probe_bind
    \/ camera_sends_video
    \/ UdpRouter_recv_from

SpecVideoPort == InitVideoPort /\ [][NextVideoPort]_vars

\* C39: every UDP port the server advertises to a camera in a code-21 reply
\* has a receive loop attached, so that a video packet sent to that port is
\* delivered to the frame reassembler and the retransmission bucket.
C39_AdvertisedPortHasLoop ==
    \A port \in advertised :
        port \in DOMAIN udp_sockets /\ udp_sockets[port].recv_loop

\* a datagram in a socket without a receive loop is never taken out of it
C39_UnreadStaysUnread ==
    [][\A port \in DOMAIN udp_sockets :
          (~udp_sockets[port].recv_loop /\ port \in DOMAIN udp_sockets')
          => /\ ~udp_sockets'[port].recv_loop
             /\ Len(udp_sockets'[port].queue) >= Len(udp_sockets[port].queue)]_vars

\* a receive loop hands what it reads to the reassembler and the bucket
C39_LoopDelivers ==
    [][\A port \in DOMAIN udp_sockets :
          (port \in DOMAIN udp_sockets'
           /\ Len(udp_sockets'[port].queue) < Len(udp_sockets[port].queue))
          => /\ Head(udp_sockets[port].queue)
                   \in Range(cameras'[VideoIp].retransmission_bucket)
             /\ cameras'[VideoIp].stream_buffer.current_frame # <<>>]_vars

\* the camera sent packet 1 to the random port of its code-21 reply: the
\* datagram waits in a socket nobody reads, and no camera has received it
C39_PacketWaitsUnread ==
    \E port \in advertised \cap RandomPorts :
        /\ port \in DOMAIN udp_sockets
        /\ ~udp_sockets[port].recv_loop
        /\ udp_sockets[port].queue = <<1>>
        /\ cameras[VideoIp].random_video_port = Some(port)
        /\ cameras[VideoIp].retransmission_bucket = <<>>
        /\ cameras[VideoIp].stream_buffer.current_frame = <<>>


\* a continuation fragment joined an assembly and the sweep then closed the
\* assembly without a terminator
ForceFinalized ==
    /\ wire_op = "complete_incomplete_frame"
    /\ wire_in.msg_flag = 251 /\ wire_in.fragments # <<>>

\* C40: a frame force-finalized by complete_incomplete_frame (no terminator
\* received) equals the exact concatenation of the fragments received so
\* far, in arrival order, for every content of those fragments.
C40_ForcedFrameIsConcatenation ==
    ForceFinalized
    => wire_out.handed = <<Concat(wire_in.fragments) \o wire_in.payload>>

\* what the code does: the last fragment received is treated as a
\* terminator, and its last 4 bytes go when they read as a size hint
C40_ForcedFrameAsAssembled ==
    ForceFinalized
    => LET p == wire_in.payload
           stripped == Len(p) >= 4 /\ Hint(p) > 0 /\ Hint(p) < 1000000
       IN  wire_out.handed =
              <<Concat(wire_in.fragments)
                   \o (IF stripped THEN SubSeq(p, 1, Len(p) - 4) ELSE p)>>

\* a middle fragment 9, 2, 0, 0, 0 after the start fragment 7: the forced
\* frame is 7, 9
C40_MiddleFragmentCut ==
    /\ ForceFinalized
    /\ wire_in.fragments = <<<<7>>>>
    /\ wire_in.payload = <<9, 2, 0, 0, 0>>
    /\ wire_out.handed = <<<<7, 9>>>>

====
